---- MODULE Spec2Model ----
(***************************************************************************)
(* A model of the Rabbit tunnel protocol core: the lane (sequencing,       *)
(* credit, pending queue), the lane manager (one mutex around the lane     *)
(* map), the acknowledgement/credit manager and the reliability manager.   *)
(*                                                                         *)
(* Spec     the tunnel's outbound path: sender tasks (next_seq,            *)
(*          send_or_queue, push, track_frame) running concurrently with    *)
(*          the reader task that hands ACK and CREDIT frames to            *)
(*          AckManager::handle_control_frame.                              *)
(* SpecSeq  LaneManager::lane(id, |l| l.next_seq()) with the mutex and     *)
(*          the read and the write of next_seq_out as separate steps.      *)
(* SpecRel  the reliability manager alone: track_frame, confirm_ack and    *)
(*          the resend loop against a clock.                               *)
(***************************************************************************)
EXTENDS Integers, Sequences, FiniteSets, TLC

\* ------------------------------------------------------------------ bounds

\* Sequence numbers a lane hands out in one run (next_seq is not called
\* once next_seq_out has passed this).
MaxSeq == 18
\* CREDIT frames the reader handles in one run.
MaxGrants == 1
\* Highest sequence number an inbound ACK frame carries.
MaxAckSeq == 2
\* Sequence numbers handed out in a run of the control-frame specification.
MaxCtlSeq == 2
\* next_seq calls in a run of SpecSeq.
MaxCalls == 4
\* SpecRel: the clock stops at MaxTime; resend_interval and the largest
\* max_retries a run is configured with.
MaxTime == 6
ResendInterval == 2
MaxRetries == 3
MaxUtc == 1
MaxAppends == 2
MaxBodyLen == 1
MaxEventSeq == 2
MaxWrites == 3
SessionTtl == 1
MaxQueuedIn == 3
MaxMembers == 1
MaxPrune == 2
MaxInSeq == 2
\* SpecFull: the capacity of the bounded outbound channel, and the instant
\* at which the clock stops
OutCapacity == 1
MaxFullTime == 2
MaxPermUtc == 2
MaxCapsLen == 3

\* ---------------------------------------------------------------- u32 / u64

\* credits is a u32.  A value v is held as <<hi, lo>> with v = hi*2^16 + lo,
\* so that 32-bit addition, its carry out and its wrap-around are exact.
U32Base == 65536

U32(n) == <<n \div U32Base, n % U32Base>>

U32MAX == <<U32Base - 1, U32Base - 1>>

U32IsZero(a) == a[1] = 0 /\ a[2] = 0

\* a + b does not fit in 32 bits
U32AddOverflows(a, b) ==
    LET lo == a[2] + b[2]
        hi == a[1] + b[1] + (lo \div U32Base)
    IN  hi >= U32Base

\* a + b modulo 2^32
U32WrappingAdd(a, b) ==
    LET lo == a[2] + b[2]
        hi == a[1] + b[1] + (lo \div U32Base)
    IN  <<hi % U32Base, lo % U32Base>>

\* a - 1 for a > 0
U32Dec(a) == IF a[2] > 0 THEN <<a[1], a[2] - 1>> ELSE <<a[1] - 1, U32Base - 1>>

\* Unbounded naturals in the same two-limb form (the high limb is not cut),
\* used to state sums that do not fit in 32 bits.
BigAdd(a, b) ==
    LET lo == a[2] + b[2]
    IN  <<a[1] + b[1] + (lo \div U32Base), lo % U32Base>>

\* ------------------------------------------------------------------- lanes

\* Lane ids of the run: lane 0 (control, and the default of a missing or
\* unparsable Lane header) and one data lane.
LaneIds == {0, 1}
DataLane == 1

InitialCredits == 16

\* Lane::new
LaneNew(id) ==
    [ id              |-> id,
      next_seq_out    |-> 1,
      expected_seq_in |-> 1,
      credits         |-> U32(InitialCredits),
      pending_out     |-> << >>,
      acks            |-> 0 ]

\* Lane::next_seq: <<the lane afterwards, the value returned>>
LaneNextSeq(lane) ==
    << [lane EXCEPT !.next_seq_out = lane.next_seq_out + 1], lane.next_seq_out >>

\* (a variant of Lane::ack that takes every acknowledgement, also a late one)
LaneAckUnconditional(lane, seq) == [lane EXCEPT !.acks = seq]

\* Lane::ack
LaneAck(lane, seq) ==
    IF seq > lane.acks THEN [lane EXCEPT !.acks = seq] ELSE lane

\* Lane::add_credit where the sum fits (the caller decides what an overflow does)
LaneAddCredit(lane, n) ==
    [lane EXCEPT !.credits = U32WrappingAdd(lane.credits, n)]

\* Lane::try_send: <<the lane afterwards, TRUE when the frame is returned
\* for immediate sending (Some), FALSE when it was queued (None)>>
LaneTrySend(lane, msg) ==
    IF ~U32IsZero(lane.credits)
    THEN << [lane EXCEPT !.credits = U32Dec(lane.credits)], TRUE >>
    ELSE << [lane EXCEPT !.pending_out = Append(lane.pending_out, msg)], FALSE >>

\* Lane::flush_pending: <<the lane afterwards, the released frames>>
RECURSIVE FlushLoop(_, _)
FlushLoop(lane, released) ==
    IF ~U32IsZero(lane.credits) /\ lane.pending_out # << >>
    THEN FlushLoop([lane EXCEPT !.pending_out = Tail(lane.pending_out),
                                !.credits = U32Dec(lane.credits)],
                   Append(released, Head(lane.pending_out)))
    ELSE << lane, released >>

\* (a variant of flush_pending that releases the newest queued frame first)
RECURSIVE FlushLoopNewestFirst(_, _)
FlushLoopNewestFirst(lane, released) ==
    IF ~U32IsZero(lane.credits) /\ lane.pending_out # << >>
    THEN FlushLoopNewestFirst(
             [lane EXCEPT !.pending_out = SubSeq(lane.pending_out, 1, Len(lane.pending_out) - 1),
                          !.credits = U32Dec(lane.credits)],
             Append(released, lane.pending_out[Len(lane.pending_out)]))
    ELSE << lane, released >>

LaneFlushPendingNewestFirst(lane) == FlushLoopNewestFirst(lane, << >>)

LaneFlushPending(lane) == FlushLoop(lane, << >>)

\* ------------------------------------------------------------ lane manager

\* (an entry() that creates the lane without credit)
EntryWithoutCredit(m, id) ==
    IF id \in DOMAIN m THEN m ELSE (id :> [LaneNew(id) EXCEPT !.credits = U32(0)]) @@ m

\* lanes.entry(id).or_insert_with(|| Lane::new(id)) on the lane map m
Entry(m, id) == IF id \in DOMAIN m THEN m ELSE (id :> LaneNew(id)) @@ m

\* LaneManager::lane(id, |l| l.next_seq()): <<the map afterwards, the value>>
MgrNextSeq(m, id) ==
    LET e == Entry(m, id)
        r == LaneNextSeq(e[id])
    IN  << [e EXCEPT ![id] = r[1]], r[2] >>

\* LaneManager::ack: only a lane that exists is touched (get_mut)
MgrAck(m, id, seq) ==
    IF id \in DOMAIN m THEN [m EXCEPT ![id] = LaneAck(m[id], seq)] ELSE m

\* LaneManager::add_credit: <<the map afterwards, the flushed frames>>
\* (an add_credit that does not flush the queue)
MgrAddCreditNoFlush(m, id, n) ==
    LET e == Entry(m, id)
    IN  << [e EXCEPT ![id] = LaneAddCredit(e[id], n)], << >> >>

MgrAddCredit(m, id, n) ==
    LET e == Entry(m, id)
        r == LaneFlushPending(LaneAddCredit(e[id], n))
    IN  << [e EXCEPT ![id] = r[1]], r[2] >>

\* LaneManager::send_or_queue: <<the map afterwards, TRUE for Some(msg)>>
MgrSendOrQueue(m, id, msg) ==
    LET e == Entry(m, id)
        r == LaneTrySend(e[id], msg)
    IN  << [e EXCEPT ![id] = r[1]], r[2] >>

\* ------------------------------------------------------------ inbound frames

\* A header is absent, present with text that is no number of the field's
\* type ("bad"), or present with the decimal text of val ("num").
Hdr(kind, val) == [kind |-> kind, val |-> val]

LaneHdrs   == {Hdr("absent", 0), Hdr("bad", 0)} \cup {Hdr("num", l) : l \in LaneIds}
AckHdrs    == {Hdr("absent", 0), Hdr("bad", 0)} \cup {Hdr("num", s) : s \in 0..MaxAckSeq}
CreditHdrs == {Hdr("absent", U32(0)), Hdr("bad", U32(0))}
                \cup {Hdr("num", a) : a \in {U32(1), U32(3), U32MAX}}

\* frame.header("Lane").and_then(|s| s.parse::<u16>().ok()).unwrap_or(0)
LaneIdOf(h) == IF h.kind = "num" THEN h.val ELSE 0

\* amount_str.trim_start_matches('+').parse::<u32>().unwrap_or(0)
CreditAmountOf(h) == IF h.kind = "num" THEN h.val ELSE U32(0)

\* ---------------------------------------------------------------- the state

Senders == {"s1", "s2"}
Callers == {"c1", "c2", "c3"}

\* tasks using the trust cache: a connection task that verifies peers, and
\* the burrow's own task that loads and saves the cache
TrustTasks == {"p1", "op"}

VARIABLES
    lanes,          \* LaneManager.lanes: lane id -> Lane, for the lanes that exist
    overflowChecks, \* the build: TRUE when u32 overflow panics, FALSE when it wraps
    spc,            \* sender task -> "idle" | "reserved" | "push" | "track"
    sseq,           \* sender task -> the sequence number it reserved
    rdpc,           \* reader task: "idle" | "flush" | "panicked"
    ready,          \* reader task: frames add_credit returned, not yet pushed
    outLast,        \* the outbound channel: seq of the frame pushed last (0: none)
    pushed,         \* the outbound channel: seqs of the data frames pushed so far
    pending,        \* ReliabilityManager.pending: <<lane, seq>> -> PendingFrame
    grants,         \* CREDIT frames handled so far
    granted,        \* lane -> sum of the amounts add_credit was called with
    sentNow,        \* lane -> try_send calls that returned the frame
    flushedCnt,     \* lane -> frames flush_pending released
    lastCredit,     \* the Credit header of the frame add_credit ran for last
    ackRepeated,    \* TRUE once an ACK frame repeated the highest_ack of its lane
    assigned,       \* sequence numbers of the data lane in next_seq order
    lockHolder,     \* the task holding the LaneManager mutex (SpecSeq)
    cpc,            \* caller -> "idle" | "locked" | "read" (SpecSeq)
    cloc,           \* caller -> the value of next_seq_out it read (SpecSeq)
    returned,       \* <<caller, value>> of each completed next_seq call (SpecSeq)
    max_retries,    \* ReliabilityManager.max_retries of the run
    now,            \* the clock (Instant::now())
    rpc,            \* resend loop: "sleep" | "scan" | "send"
    wakeAt,         \* resend loop: the instant its sleep ends
    scanNow,        \* resend loop: `now` as read after the sleep
    toResend,       \* resend loop: keys of the frames collected, not yet sent
    resent,         \* <<lane, seq>> -> times the resend loop enqueued the frame
    tracked,        \* keys track_frame was called for
    scanned,        \* keys for which a scan ran since their track_frame
    early           \* keys confirm_ack removed before any scan followed track_frame

VARIABLES
    peers,          \* TrustCache.peers: burrow id -> TrustedPeer
    trustFile,      \* trusted_peers.json: [exists, bytes]
    rwWriter,       \* the task holding the write guard of TrustCache.peers
    rwReaders,      \* the tasks holding a read guard of TrustCache.peers
    tpc,            \* trust task -> "idle" | "save_read" | "save_create" | "save_write"
    sdata,          \* trust task -> the text save() serialised, not yet written
    tres,           \* trust task -> how its last call ended
    utc             \* Utc::now().timestamp()

VARIABLES
    streams,        \* ContinuityEngine.streams: topic -> events of the topic
    logFiles,       \* the log files that exist: path -> text
    apc,            \* append: "idle" | "write" (the write guard is held)
    aline,          \* append: [path, text] of the line to write
    lpc,            \* load_topic: "idle" | "parsed"
    lbuf,           \* load_topic: [topic, events] read from the file
    replayed,       \* the frames the last replay call returned
    replayArg,      \* [topic, since] of the last replay call
    nAppends,       \* append calls so far
    appFailed,      \* TRUE once an append call returned an error
    appBefore       \* streams as it was when the append call in progress began

VARIABLES
    built,          \* the frame being built
    fpc,            \* "none" | "build" | "text" | "parsed"
    ftext,          \* what to_string returned for the frame
    fparsed         \* what Frame::parse returned for that text

VARIABLES
    wire,           \* the tunnel's stream: what was written and is not yet read
    tunpc,          \* the reader task: "reading" | "closed" (the loop was left)
    nProcessed,     \* frames the reader task received and printed
    nWrites,        \* writes to the stream so far
    sawMalformed,   \* TRUE once read_frame returned a parse error
    replies,        \* frames the reader task wrote back to the peer
    lastRead        \* [some, frame]: the frame the reader task received last

VARIABLES
    sessions,       \* IdentityManager.sessions: token -> Session
    issued,         \* the tokens create_session returned
    authRes,        \* [called, ok, hdr] of the last require_auth call
    helloRes        \* [called, res, token] of the last process_hello call

VARIABLES
    permGrants,     \* CapabilityManager.grants: subject -> Grant
    lastGrantOp,    \* subject -> [kind, ttl] of the last grant or revoke for it
    reqRes,         \* [called, ok, hdr, cap] of the last require call
    delRes,         \* how the last handle_delegate call ended
    dframe          \* [bid, caps, ttl]: the headers of the DELEGATE frame at hand

VARIABLES
    cin,            \* [lane, a, b]: a lane and two amounts of credit
    cout,           \* [ab, ba, sum]: how add_credit(a) then (b), (b) then (a), (a + b) ended
    manifest,       \* the TrustManifest at hand, [some |-> FALSE] before sign
    msigned,        \* [m, key]: the manifest as sign returned it and the keypair used
    mres,           \* [called, ok, pk] of the last verify call
    outClosed,      \* the receiver of the reliability manager's outbound channel was dropped
    sendErrs        \* sends of the resend loop that returned Err

VARIABLES
    pruned          \* [called, topic, max, before, logBefore, loaded] of the prune call made

VARIABLES
    plock,          \* holder of the pending mutex: "none" | "loop" | a calling task,
    outQueued,      \* frames waiting in the outbound channel,
    kpc,            \* calling tasks: "idle" | "wait" | "held",
    karg,           \* the key each calling task passed,
    served          \* operations completed while the loop was blocked in send

creditGhost == <<grants, granted, sentNow, flushedCnt, lastCredit>>
ackGhost    == <<ackRepeated>>
senderVars  == <<spc, sseq, assigned>>
readerVars  == <<rdpc, ready>>
chanVars    == <<outLast, pushed>>
laneVars    == <<lanes, overflowChecks, senderVars, readerVars, chanVars, creditGhost, ackGhost>>
seqVars     == <<lockHolder, cpc, cloc, returned>>
relVars     == <<pending, max_retries, now, rpc, wakeAt, scanNow, toResend, resent,
                 tracked, scanned, early>>
coreVars    == <<laneVars, seqVars, relVars>>
trustVars   == <<peers, trustFile, rwWriter, rwReaders, tpc, sdata, tres>>
contVars    == <<streams, logFiles, apc, aline, lpc, lbuf, replayed, replayArg, nAppends,
                 appFailed, appBefore>>
frameVars   == <<built, fpc, ftext, fparsed>>
wireVars    == <<wire, tunpc, nProcessed, nWrites, sawMalformed, replies, lastRead>>
authVars    == <<sessions, issued, authRes, helloRes>>
permVars    == <<permGrants, lastGrantOp, reqRes, delRes, dframe>>
addVars     == <<cin, cout>>
maniVars    == <<manifest, msigned, mres>>
closeVars   == <<outClosed, sendErrs>>
fullVars    == <<plock, outQueued, kpc, karg, served>>
pruneVars   == <<pruned>>
nonTrustVars == <<coreVars, contVars, frameVars, wireVars, authVars, permVars, addVars, maniVars,
                  closeVars, fullVars, pruneVars>>
nonContVars  == <<coreVars, trustVars, frameVars, wireVars, authVars, permVars, addVars, maniVars,
                  closeVars, fullVars, pruneVars>>
nonFrameVars == <<coreVars, trustVars, contVars, wireVars, authVars, permVars, addVars, maniVars,
                  closeVars, fullVars, pruneVars, utc>>
nonWireVars  == <<coreVars, trustVars, contVars, frameVars, authVars, permVars, addVars, maniVars,
                  closeVars, fullVars, pruneVars, utc>>
nonAuthVars  == <<coreVars, trustVars, contVars, frameVars, wireVars, permVars, addVars, maniVars,
                  closeVars, fullVars, pruneVars>>
nonPermVars  == <<coreVars, trustVars, contVars, frameVars, wireVars, authVars, addVars, maniVars,
                  closeVars, fullVars, pruneVars>>
nonAddVars   == <<coreVars, trustVars, contVars, frameVars, wireVars, authVars, permVars,
                  maniVars, closeVars, fullVars, pruneVars, utc>>
nonManiVars  == <<coreVars, trustVars, contVars, frameVars, wireVars, authVars, permVars,
                  addVars, closeVars, fullVars, pruneVars>>
nonCloseVars == <<trustVars, contVars, frameVars, wireVars, authVars, permVars, addVars,
                  maniVars, pruneVars, fullVars, utc>>
nonPruneVars == <<coreVars, trustVars, contVars, frameVars, wireVars, authVars, permVars,
                  addVars, maniVars, closeVars, fullVars, utc>>
nonContPruneVars == <<coreVars, trustVars, frameVars, wireVars, authVars, permVars,
                      addVars, maniVars, closeVars, fullVars, utc>>
nonFullVars == <<coreVars, trustVars, contVars, frameVars, wireVars, authVars, permVars,
                 addVars, maniVars, closeVars, pruneVars, utc>>
nonRelFullVars == <<laneVars, seqVars, trustVars, contVars, frameVars, wireVars, authVars,
                    permVars, addVars, maniVars, closeVars, pruneVars, utc>>
extVars     == <<trustVars, contVars, frameVars, wireVars, authVars, permVars, addVars,
                 maniVars, closeVars, fullVars, pruneVars, utc>>
vars        == <<coreVars, extVars>>

Msg(l, s) == [lane |-> l, seq |-> s]

\* PendingFrame as track_frame stores it
PendingFrame(l, s, t) == [lane |-> l, seq |-> s, data |-> Msg(l, s), last_sent |-> t, attempts |-> 1]

\* ReliabilityManager::track_frame
TrackFrame(p, l, s, t) ==
    (<<l, s>> :> PendingFrame(l, s, t)) @@ [k \in DOMAIN p \ {<<l, s>>} |-> p[k]]

\* (a confirm_ack that leaves the entry in the map)
ConfirmAckKeeps(p, l, s) == p

\* ReliabilityManager::confirm_ack
ConfirmAck(p, l, s) == [k \in DOMAIN p \ {<<l, s>>} |-> p[k]]

EmptyMap == [k \in {} |-> 0]

InitSeqIdle ==
    /\ lockHolder = "none"
    /\ cpc = [c \in Callers |-> "idle"]
    /\ cloc = [c \in Callers |-> 0]
    /\ returned = << >>

InitLanes ==
    /\ lanes = EmptyMap
    /\ overflowChecks \in BOOLEAN
    /\ spc = [s \in Senders |-> "idle"]
    /\ sseq = [s \in Senders |-> 0]
    /\ rdpc = "idle"
    /\ ready = << >>
    /\ outLast = 0
    /\ pushed = {}
    /\ grants = 0
    /\ granted = [l \in LaneIds |-> U32(0)]
    /\ sentNow = [l \in LaneIds |-> 0]
    /\ flushedCnt = [l \in LaneIds |-> 0]
    /\ lastCredit = [present |-> FALSE, amount |-> U32(0)]
    /\ ackRepeated = FALSE
    /\ assigned = << >>

\* Key of the frame SpecRelClose registers
CloseKey == <<1, 1>>

\* Keys of the frames SpecRel registers
RelKeys == {<<1, 1>>, <<1, 2>>}

\* ReliabilityManager::new, and the resend loop about to start its first sleep
InitRel(retries) ==
    /\ pending = EmptyMap
    /\ max_retries \in retries
    /\ now = 0
    /\ rpc = "sleep"
    /\ wakeAt = ResendInterval
    /\ scanNow = 0
    /\ toResend = << >>
    /\ resent = [k \in RelKeys |-> 0]
    /\ tracked = {}
    /\ scanned = {}
    /\ early = {}

\* TrustCache::new: an empty map, no file written yet, every task idle
InitTrust ==
    /\ peers = EmptyMap
    /\ trustFile = [exists |-> FALSE, bytes |-> << >>]
    /\ rwWriter = "none"
    /\ rwReaders = {}
    /\ tpc = [t \in TrustTasks |-> "idle"]
    /\ sdata = [t \in TrustTasks |-> << >>]
    /\ tres = [t \in TrustTasks |-> "none"]
    /\ utc = 0

\* Option<String>
None    == [some |-> FALSE, val |-> << >>]
Some(v) == [some |-> TRUE, val |-> v]

\* Option<u64>
NoSince  == [some |-> FALSE, val |-> 0]
Since(v) == [some |-> TRUE, val |-> v]

\* ContinuityEngine::new: no stream in memory; no log file yet
InitCont ==
    /\ streams = EmptyMap
    /\ logFiles = EmptyMap
    /\ apc = "idle"
    /\ aline = [path |-> << >>, text |-> << >>]
    /\ lpc = "idle"
    /\ lbuf = [topic |-> << >>, events |-> << >>]
    /\ replayed = << >>
    /\ replayArg = [topic |-> << >>, since |-> NoSince]
    /\ nAppends = 0
    /\ appFailed = FALSE
    /\ appBefore = EmptyMap

\* no frame built yet
InitFrame ==
    /\ built = [verb |-> << >>, args |-> << >>, headers |-> EmptyMap, body |-> None]
    /\ fpc = "none"
    /\ ftext = << >>
    /\ fparsed = [ok |-> FALSE, verb |-> << >>, args |-> << >>, headers |-> EmptyMap, body |-> None]

\* nothing on the stream, the reader task in its loop
InitWire ==
    /\ wire = << >>
    /\ tunpc = "reading"
    /\ nProcessed = 0
    /\ nWrites = 0
    /\ sawMalformed = FALSE
    /\ replies = << >>
    /\ lastRead = [some |-> FALSE,
                   frame |-> [ok |-> FALSE, verb |-> << >>, args |-> << >>,
                              headers |-> EmptyMap, body |-> None]]

\* IdentityManager::new: no session
InitAuth ==
    /\ sessions = EmptyMap
    /\ issued = {}
    /\ authRes = [called |-> FALSE, ok |-> FALSE, hdr |-> [some |-> FALSE, val |-> ""]]
    /\ helloRes = [called |-> FALSE, res |-> "none", token |-> ""]

\* CapabilityManager::new: no grant
InitPermWith(frames) ==
    /\ permGrants = EmptyMap
    /\ lastGrantOp = EmptyMap
    /\ reqRes = [called |-> FALSE, ok |-> FALSE, hdr |-> None, cap |-> ""]
    /\ delRes = "none"
    /\ dframe \in frames

InitPerm == InitPermWith({[bid |-> None, caps |-> None, ttl |-> None]})

\* the outcome of a run of add_credit calls that has not been made yet
NotRun(m) == [done |-> FALSE, lanes |-> m, released |-> << >>, panicked |-> FALSE]

InitAddWith(inputs) ==
    /\ cin \in inputs
    /\ cout = [ab |-> NotRun(cin.lanes), ba |-> NotRun(cin.lanes), sum |-> NotRun(cin.lanes)]

InitAdd == InitAddWith({[lanes |-> EmptyMap, a |-> U32(0), b |-> U32(0)]})

InitMani ==
    /\ manifest = [some |-> FALSE]
    /\ msigned = [some |-> FALSE]
    /\ mres = [called |-> FALSE, ok |-> FALSE, pk |-> ""]

\* no prune call made yet
InitPrune ==
    pruned = [called |-> FALSE, topic |-> << >>, max |-> 0, before |-> << >>,
              logBefore |-> EmptyMap, loaded |-> FALSE]

\* The tasks that call into the reliability manager next to the resend loop:
\* "tk" registers frames with track_frame, "ak" reports ACKs with confirm_ack.
KeyTasks == {"tk", "ak"}

\* nobody holds the pending mutex, the outbound channel is empty
InitFull ==
    /\ plock = "none"
    /\ outQueued = 0
    /\ kpc = [t \in KeyTasks |-> "idle"]
    /\ karg = [t \in KeyTasks |-> CloseKey]
    /\ served = {}

\* the tunnel writer holds the receiver of the outbound channel
InitClose ==
    /\ outClosed = FALSE
    /\ sendErrs = 0

InitExt ==
    /\ InitPrune
    /\ InitFull
    /\ InitClose
    /\ InitAdd
    /\ InitMani
    /\ InitPerm
    /\ InitTrust
    /\ InitCont
    /\ InitFrame
    /\ InitWire
    /\ InitAuth

Init ==
    /\ InitLanes
    /\ InitSeqIdle
    /\ InitRel({MaxRetries})
    /\ InitExt

\* ------------------------------------------------------------- sender tasks
\* Outbound send of a data frame (the caller of the lane manager): reserve
\* seq with next_seq, call send_or_queue, push a ready frame to the outbound
\* channel, register it with reliability.

SenderNextSeq(s, maxSeq) ==
    /\ spc[s] = "idle"
    /\ DataLane \in DOMAIN lanes => lanes[DataLane].next_seq_out <= maxSeq
    /\ LET r == MgrNextSeq(lanes, DataLane)
       IN  /\ lanes' = r[1]
           /\ sseq' = [sseq EXCEPT ![s] = r[2]]
           /\ assigned' = Append(assigned, r[2])
    /\ spc' = [spc EXCEPT ![s] = "reserved"]
    /\ UNCHANGED <<extVars, overflowChecks, readerVars, chanVars, creditGhost, ackGhost,
                   seqVars, relVars>>

SenderSendOrQueue(s) ==
    /\ spc[s] = "reserved"
    /\ LET r == MgrSendOrQueue(lanes, DataLane, Msg(DataLane, sseq[s]))
       IN  /\ lanes' = r[1]
           /\ spc' = [spc EXCEPT ![s] = IF r[2] THEN "push" ELSE "idle"]
           /\ sseq' = [sseq EXCEPT ![s] = IF r[2] THEN @ ELSE 0]
           /\ sentNow' = [sentNow EXCEPT ![DataLane] = @ + (IF r[2] THEN 1 ELSE 0)]
    /\ UNCHANGED <<extVars, overflowChecks, assigned, readerVars, chanVars, grants, granted,
                   flushedCnt, lastCredit, ackGhost, seqVars, relVars>>

SenderPush(s) ==
    /\ spc[s] = "push"
    /\ outLast' = sseq[s]
    /\ pushed' = pushed \cup {sseq[s]}
    /\ spc' = [spc EXCEPT ![s] = "track"]
    /\ UNCHANGED <<extVars, lanes, overflowChecks, sseq, assigned, readerVars, creditGhost,
                   ackGhost, seqVars, relVars>>

SenderTrack(s) ==
    /\ spc[s] = "track"
    /\ pending' = TrackFrame(pending, DataLane, sseq[s], now)
    /\ spc' = [spc EXCEPT ![s] = "idle"]
    /\ sseq' = [sseq EXCEPT ![s] = 0]
    /\ UNCHANGED <<extVars, lanes, overflowChecks, assigned, readerVars, chanVars, creditGhost,
                   ackGhost, seqVars, max_retries, now, rpc, wakeAt, scanNow, toResend,
                   resent, tracked, scanned, early>>

\* -------------------------------------------------------------- reader task
\* The tunnel's reader hands each inbound ACK or CREDIT frame to
\* AckManager::handle_control_frame, one frame at a time.

\* What handle_control_frame does to the lane map for verb "ACK"
AckLanes(m, laneHdr, ackHdr) ==
    IF ackHdr.kind = "num" THEN MgrAck(m, LaneIdOf(laneHdr), ackHdr.val) ELSE m

\* verb "ACK"
HandleAck(laneHdr, ackHdr) ==
    /\ rdpc = "idle"
    /\ lanes' = AckLanes(lanes, laneHdr, ackHdr)
    /\ ackRepeated' = \/ ackRepeated
                       \/ /\ ackHdr.kind = "num"
                          /\ ackHdr.val > 0
                          /\ LaneIdOf(laneHdr) \in DOMAIN lanes
                          /\ lanes[LaneIdOf(laneHdr)].acks = ackHdr.val
    /\ UNCHANGED <<extVars, overflowChecks, senderVars, readerVars, chanVars, creditGhost,
                   seqVars, relVars>>

\* verb "CREDIT": add_credit under the mutex; the flushed frames are pushed
\* afterwards, one send().await at a time (PushFlushed).  credits += n on a
\* u32 panics in a build with overflow checks and wraps in one without.
HandleCredit(laneHdr, creditHdr) ==
    /\ rdpc = "idle"
    /\ grants < MaxGrants
    /\ grants' = grants + 1
    /\ IF creditHdr.kind = "absent"
       THEN /\ lastCredit' = [present |-> FALSE, amount |-> U32(0)]
            /\ UNCHANGED <<lanes, readerVars, granted, flushedCnt>>
       ELSE LET id == LaneIdOf(laneHdr)
                n  == CreditAmountOf(creditHdr)
                e  == Entry(lanes, id)
                r  == MgrAddCredit(lanes, id, n)
            IN  IF overflowChecks /\ U32AddOverflows(e[id].credits, n)
                THEN /\ lanes' = e
                     /\ rdpc' = "panicked"
                     /\ lastCredit' = [present |-> FALSE, amount |-> U32(0)]
                     /\ UNCHANGED <<ready, granted, flushedCnt>>
                ELSE /\ lanes' = r[1]
                     /\ ready' = r[2]
                     /\ rdpc' = IF r[2] = << >> THEN "idle" ELSE "flush"
                     /\ granted' = [granted EXCEPT ![id] = BigAdd(@, n)]
                     /\ flushedCnt' = [flushedCnt EXCEPT ![id] = @ + Len(r[2])]
                     /\ lastCredit' = [present |-> TRUE, amount |-> n]
    /\ UNCHANGED <<extVars, overflowChecks, senderVars, chanVars, sentNow, ackGhost,
                   seqVars, relVars>>

\* for msg in ready { self.outbound.send(msg).await?; }
PushFlushed ==
    /\ rdpc = "flush"
    /\ outLast' = Head(ready).seq
    /\ pushed' = pushed \cup {Head(ready).seq}
    /\ ready' = Tail(ready)
    /\ rdpc' = IF Tail(ready) = << >> THEN "idle" ELSE "flush"
    /\ UNCHANGED <<extVars, lanes, overflowChecks, senderVars, creditGhost, ackGhost,
                   seqVars, relVars>>

\* The outbound path of the data lane: the senders run until MaxSeq sequence
\* numbers are handed out, the peer grants credit on the data lane.
Next ==
    \/ \E s \in Senders : SenderNextSeq(s, MaxSeq)
    \/ \E s \in Senders : SenderSendOrQueue(s)
    \/ \E s \in Senders : SenderPush(s)
    \/ \E s \in Senders : SenderTrack(s)
    \/ \E ch \in CreditHdrs : HandleCredit(Hdr("num", DataLane), ch)
    \/ PushFlushed

Spec == Init /\ [][Next]_vars

\* Control frames with every shape of header, on a tunnel that sends a few
\* data frames.  (No lane runs out of credit within MaxCtlSeq frames, so
\* add_credit returns nothing to push here.)
\* (one sender task suffices next to the reader of control frames)
CtlSenders == {"s1"}

NextCtl ==
    \/ \E s \in CtlSenders : SenderNextSeq(s, MaxCtlSeq)
    \/ \E s \in CtlSenders : SenderSendOrQueue(s)
    \/ \E s \in CtlSenders : SenderPush(s)
    \/ \E s \in CtlSenders : SenderTrack(s)
    \/ \E lh \in LaneHdrs, ah \in AckHdrs : HandleAck(lh, ah)
    \/ \E lh \in LaneHdrs, ch \in CreditHdrs : HandleCredit(lh, ch)

SpecCtl == Init /\ [][NextCtl]_vars

\* The three operations that touch credits, the queue and the ack mark, on
\* the data lane: one task sends until the lane runs out of credit and
\* beyond, the reader handles CREDIT and ACK frames of the lane.
NextOps ==
    \/ \E s \in CtlSenders : SenderNextSeq(s, MaxSeq)
    \/ \E s \in CtlSenders : SenderSendOrQueue(s)
    \/ \E s \in CtlSenders : SenderPush(s)
    \/ \E s \in CtlSenders : SenderTrack(s)
    \/ \E ch \in CreditHdrs : HandleCredit(Hdr("num", DataLane), ch)
    \/ PushFlushed
    \/ \E a \in 0..MaxAckSeq : HandleAck(Hdr("num", DataLane), Hdr("num", a))

SpecOps == Init /\ [][NextOps]_vars

\* ------------------------------------------- LaneManager::lane, step by step
\* lane(id, |l| l.next_seq()) by concurrent callers: lock().await, entry(),
\* the closure's read of next_seq_out, its increment, and the return that
\* drops the guard.

\* (a mutex that lets every caller in)
MutexAlwaysFree == TRUE

\* self.lanes.lock().await succeeds when no task holds the guard
MutexFree == lockHolder = "none"

CallerLock(c) ==
    /\ cpc[c] = "idle"
    /\ Len(returned) + Cardinality({d \in Callers : cpc[d] # "idle"}) < MaxCalls
    /\ MutexFree
    /\ lockHolder' = c
    /\ cpc' = [cpc EXCEPT ![c] = "locked"]
    /\ UNCHANGED <<extVars, laneVars, cloc, returned, relVars>>

\* let lane = lanes.entry(id).or_insert_with(..); let seq = self.next_seq_out;
CallerRead(c) ==
    /\ cpc[c] = "locked"
    /\ lanes' = Entry(lanes, DataLane)
    /\ cloc' = [cloc EXCEPT ![c] = Entry(lanes, DataLane)[DataLane].next_seq_out]
    /\ cpc' = [cpc EXCEPT ![c] = "read"]
    /\ UNCHANGED <<extVars, overflowChecks, senderVars, readerVars, chanVars, creditGhost,
                   ackGhost, lockHolder, returned, relVars>>

\* self.next_seq_out += 1;
CallerIncrement(c) ==
    /\ cpc[c] = "read"
    /\ lanes' = [lanes EXCEPT ![DataLane].next_seq_out = @ + 1]
    /\ cpc' = [cpc EXCEPT ![c] = "incremented"]
    /\ UNCHANGED <<extVars, overflowChecks, senderVars, readerVars, chanVars, creditGhost,
                   ackGhost, lockHolder, cloc, returned, relVars>>

\* seq is returned and the guard dropped
CallerReturn(c) ==
    /\ cpc[c] = "incremented"
    /\ returned' = Append(returned, <<c, cloc[c]>>)
    /\ lockHolder' = "none"
    /\ cpc' = [cpc EXCEPT ![c] = "idle"]
    /\ cloc' = [cloc EXCEPT ![c] = 0]
    /\ UNCHANGED <<extVars, laneVars, relVars>>

NextSeq ==
    \/ \E c \in Callers : CallerLock(c)
    \/ \E c \in Callers : CallerRead(c)
    \/ \E c \in Callers : CallerIncrement(c)
    \/ \E c \in Callers : CallerReturn(c)

SpecSeq == Init /\ [][NextSeq]_vars

\* ------------------------------------------------------ reliability manager

\* now.duration_since(earlier): saturates at zero
DurationSince(t, earlier) == IF t >= earlier THEN t - earlier ELSE 0

\* The entries a scan at instant t resends
Due(p, t, retries) ==
    {k \in DOMAIN p : /\ DurationSince(t, p[k].last_sent) >= ResendInterval
                      /\ p[k].attempts < retries}

\* pending.iter_mut() body: last_sent = now; attempts += 1
Rescheduled(p, t, retries) ==
    [k \in DOMAIN p |->
        IF k \in Due(p, t, retries)
        THEN [p[k] EXCEPT !.last_sent = t, !.attempts = @ + 1]
        ELSE p[k]]

\* The orders in which a HashMap iteration may visit the keys in S
Orders(S) ==
    {o \in [1..Cardinality(S) -> S] : \A i, j \in 1..Cardinality(S) : i # j => o[i] # o[j]}

Tick ==
    /\ now < MaxTime
    /\ now' = now + 1
    /\ UNCHANGED <<extVars, laneVars, seqVars, pending, max_retries, rpc, wakeAt, scanNow,
                   toResend, resent, tracked, scanned, early>>

\* track_frame(lane, seq, data), called once per frame
TrackFrameCall(k) ==
    /\ k \notin tracked
    /\ pending' = TrackFrame(pending, k[1], k[2], now)
    /\ tracked' = tracked \cup {k}
    /\ UNCHANGED <<extVars, laneVars, seqVars, max_retries, now, rpc, wakeAt, scanNow, toResend,
                   resent, scanned, early>>

\* confirm_ack(lane, seq)
ConfirmAckCall(k) ==
    /\ pending' = ConfirmAck(pending, k[1], k[2])
    /\ early' = IF k \in tracked /\ k \notin scanned THEN early \cup {k} ELSE early
    /\ UNCHANGED <<extVars, laneVars, seqVars, max_retries, now, rpc, wakeAt, scanNow, toResend,
                   resent, tracked, scanned>>

\* sleep(self.resend_interval).await returns; let now = Instant::now();
ResendWake ==
    /\ rpc = "sleep"
    /\ now >= wakeAt
    /\ scanNow' = now
    /\ rpc' = "scan"
    /\ UNCHANGED <<extVars, laneVars, seqVars, pending, max_retries, now, wakeAt, toResend,
                   resent, tracked, scanned, early>>

\* The scan, with the pending lock held: collect and update the due entries.
ResendScan ==
    /\ rpc = "scan"
    /\ \E o \in Orders(Due(pending, scanNow, max_retries)) :
           /\ toResend' = o
           /\ rpc' = IF o = << >> THEN "sleep" ELSE "send"
    /\ pending' = Rescheduled(pending, scanNow, max_retries)
    /\ wakeAt' = IF Due(pending, scanNow, max_retries) = {} THEN now + ResendInterval ELSE wakeAt
    /\ scanned' = tracked
    /\ UNCHANGED <<extVars, laneVars, seqVars, max_retries, now, scanNow, resent, tracked, early>>

\* self.outbound.send(data.clone()).await for the next collected frame
\* an Err (the receiver is gone) is printed and the for loop goes on
ResendSend ==
    /\ rpc = "send"
    /\ IF outClosed
       THEN sendErrs' = sendErrs + 1 /\ UNCHANGED resent
       ELSE resent' = [resent EXCEPT ![Head(toResend)] = @ + 1] /\ UNCHANGED sendErrs
    /\ toResend' = Tail(toResend)
    /\ IF Tail(toResend) = << >>
       THEN rpc' = "sleep" /\ wakeAt' = now + ResendInterval
       ELSE UNCHANGED <<rpc, wakeAt>>
    /\ UNCHANGED <<nonCloseVars, outClosed, laneVars, seqVars, pending, max_retries, now,
                   scanNow, tracked, scanned, early>>

NextRel ==
    \/ Tick
    \/ \E k \in RelKeys : TrackFrameCall(k)
    \/ \E k \in RelKeys : ConfirmAckCall(k)
    \/ ResendWake
    \/ ResendScan
    \/ ResendSend

InitRelSpec ==
    /\ InitLanes
    /\ InitSeqIdle
    /\ InitRel(0..MaxRetries)
    /\ InitExt
    /\ overflowChecks = TRUE

SpecRel == InitRelSpec /\ [][NextRel]_vars

\* the tunnel stops: the receiver of the outbound channel is dropped
CloseOutbound ==
    /\ ~outClosed
    /\ outClosed' = TRUE
    /\ UNCHANGED <<coreVars, nonCloseVars, sendErrs>>

\* an instant one tick further in the past (Instants are only compared:
\* a duration of MaxTime or more already exceeds the resend interval)
Earlier(t) == IF t > 0 THEN t - 1 ELSE 0

\* The clock advances.  At MaxTime the clock's origin moves instead: while
\* the loop sleeps, every instant it holds falls one tick further back.
TickClose ==
    /\ IF now < MaxTime
       THEN /\ now' = now + 1
            /\ UNCHANGED <<pending, wakeAt, scanNow>>
       ELSE /\ rpc = "sleep"
            /\ pending' = [k \in DOMAIN pending |->
                               [pending[k] EXCEPT !.last_sent = Earlier(@)]]
            /\ wakeAt' = Earlier(wakeAt)
            /\ scanNow' = Earlier(scanNow)
            /\ UNCHANGED now
    /\ UNCHANGED <<extVars, laneVars, seqVars, max_retries, rpc, toResend, resent, tracked,
                   scanned, early>>

NextRelClose ==
    \/ TickClose
    \/ TrackFrameCall(CloseKey)
    \/ CloseOutbound
    \/ ResendWake
    \/ ResendScan
    \/ ResendSend

InitRelClose ==
    /\ InitLanes
    /\ InitSeqIdle
    /\ InitRel({MaxRetries})
    /\ InitExt
    /\ overflowChecks = TRUE

SpecRelClose == InitRelClose /\ [][NextRelClose]_vars

\* the clock advances and the resend task, once runnable, is scheduled
SpecRelCloseFair ==
    SpecRelClose /\ WF_vars(TickClose) /\ WF_vars(ResendWake) /\ WF_vars(ResendScan)
                 /\ WF_vars(ResendSend)

\* --------------------------------- the resend loop and the pending mutex
\* reliability.rs, with the tokio Mutex around the pending map and the
\* bounded outbound channel made explicit.  A lock().await waits until
\* nobody holds the mutex; a send().await waits until the channel has room.

\* let mut pending = self.pending.lock().await;  (the inner block opens)
PendingLock ==
    /\ rpc = "scan"
    /\ plock = "none"
    /\ plock' = "loop"
    /\ rpc' = "collect"
    /\ UNCHANGED <<nonRelFullVars, pending, max_retries, now, wakeAt, scanNow, toResend,
                   resent, tracked, scanned, early, outQueued, kpc, karg, served>>

\* (a resend loop that keeps its guard after the inner block)
AfterCollectHeld == "loop"

\* the inner block ends: the guard is dropped before the first send
AfterCollect == "none"

\* for ((_lane, _seq), frame) in pending.iter_mut() { ... } under the guard
Collect ==
    /\ rpc = "collect"
    /\ plock = "loop"
    /\ \E o \in Orders(Due(pending, scanNow, max_retries)) :
           /\ toResend' = o
           /\ rpc' = IF o = << >> THEN "sleep" ELSE "send"
    /\ pending' = Rescheduled(pending, scanNow, max_retries)
    /\ wakeAt' = IF Due(pending, scanNow, max_retries) = {} THEN now + ResendInterval ELSE wakeAt
    /\ scanned' = tracked
    /\ plock' = AfterCollect
    /\ UNCHANGED <<nonRelFullVars, max_retries, now, scanNow, resent, tracked, early,
                   outQueued, kpc, karg, served>>

\* self.outbound.send(data.clone()).await on the bounded channel: it
\* returns once the channel has room for the frame
SendBounded ==
    /\ rpc = "send"
    /\ outQueued < OutCapacity
    /\ outQueued' = outQueued + 1
    /\ resent' = [resent EXCEPT ![Head(toResend)] = @ + 1]
    /\ toResend' = Tail(toResend)
    /\ IF Tail(toResend) = << >>
       THEN rpc' = "sleep" /\ wakeAt' = now + ResendInterval
       ELSE UNCHANGED <<rpc, wakeAt>>
    /\ UNCHANGED <<nonRelFullVars, pending, max_retries, now, scanNow, tracked, scanned,
                   early, plock, kpc, karg, served>>

\* the tunnel writer takes a frame out of the outbound channel
Drain ==
    /\ outQueued > 0
    /\ outQueued' = outQueued - 1
    /\ UNCHANGED <<nonFullVars, plock, kpc, karg, served>>

\* another holder of the Sender (the AckManager pushing a flushed frame)
\* puts a frame in the channel
OtherSend ==
    /\ outQueued < OutCapacity
    /\ outQueued' = outQueued + 1
    /\ UNCHANGED <<nonFullVars, plock, kpc, karg, served>>

\* the clock of this run
FullTick ==
    /\ now < MaxFullTime
    /\ now' = now + 1
    /\ UNCHANGED <<nonRelFullVars, fullVars, pending, max_retries, rpc, wakeAt, scanNow,
                   toResend, resent, tracked, scanned, early>>

\* the resend loop waits in send() for room in the channel
BlockedInSend == rpc = "send" /\ outQueued = OutCapacity

\* a task calls track_frame (once per frame) or confirm_ack and reaches
\* self.pending.lock().await
KeyCall(t, k) ==
    /\ kpc[t] = "idle"
    /\ t = "tk" => k \notin tracked
    /\ kpc' = [kpc EXCEPT ![t] = "wait"]
    /\ karg' = [karg EXCEPT ![t] = k]
    /\ UNCHANGED <<nonFullVars, plock, outQueued, served>>

\* the call gets the guard
KeyLock(t) ==
    /\ kpc[t] = "wait"
    /\ plock = "none"
    /\ plock' = t
    /\ kpc' = [kpc EXCEPT ![t] = "held"]
    /\ UNCHANGED <<nonFullVars, outQueued, karg, served>>

\* pending.insert(...) or pending.remove(...), and the guard is dropped
KeyDone(t) ==
    /\ kpc[t] = "held"
    /\ LET k == karg[t]
       IN  IF t = "tk"
           THEN /\ pending' = TrackFrame(pending, k[1], k[2], now)
                /\ tracked' = tracked \cup {k}
                /\ UNCHANGED early
           ELSE /\ pending' = ConfirmAck(pending, k[1], k[2])
                /\ early' = IF k \in tracked /\ k \notin scanned THEN early \cup {k} ELSE early
                /\ UNCHANGED tracked
    /\ plock' = "none"
    /\ kpc' = [kpc EXCEPT ![t] = "idle"]
    /\ served' = IF BlockedInSend THEN served \cup {t} ELSE served
    /\ UNCHANGED <<nonRelFullVars, max_retries, now, rpc, wakeAt, scanNow, toResend, resent,
                   scanned, outQueued, karg>>

NextFull ==
    \/ FullTick
    \/ ResendWake
    \/ PendingLock
    \/ Collect
    \/ SendBounded
    \/ Drain
    \/ OtherSend
    \/ \E t \in KeyTasks, k \in RelKeys : KeyCall(t, k)
    \/ \E t \in KeyTasks : KeyLock(t)
    \/ \E t \in KeyTasks : KeyDone(t)

InitFullSpec ==
    /\ InitLanes
    /\ InitSeqIdle
    /\ InitRel({MaxRetries})
    /\ InitExt
    /\ overflowChecks = TRUE

SpecFull == InitFullSpec /\ [][NextFull]_vars

\* The mutex is fair (waiters get it in turn), a task that holds the guard
\* runs to the end of its critical section, and the loop's block has no
\* await in it.  Nothing is assumed about the tunnel writer: the channel may
\* stay full for ever.
SpecFullFair ==
    /\ SpecFull
    /\ \A t \in KeyTasks : SF_vars(KeyLock(t)) /\ WF_vars(KeyDone(t))
    /\ WF_vars(Collect)

\* ------------------------------------------------------------- TrustCache
\* security/trust.rs.  peers is a tokio RwLock<HashMap>: write().await waits
\* until no guard is held, read().await waits until no write guard is held,
\* and a guard is released when the variable holding it goes out of scope.

TrustIds == {"a"}
Certs    == {"P", "Q"}
Anchors  == {"none", "anc"}

\* TrustCache::fingerprint: hex(SHA-256(cert_pem)), taken as collision free
Fingerprint(cert) == <<"sha256", cert>>

TrustedPeer(id, fp, t, a) ==
    [burrow_id |-> id, fingerprint |-> fp, first_seen |-> t, last_seen |-> t, anchor_id |-> a]

\* (a verify_or_remember that overwrites the entry on a mismatch)
VerifyOrRememberOverwrite(p, id, cert, a, t) ==
    IF id \in DOMAIN p
    THEN IF p[id].fingerprint # Fingerprint(cert)
         THEN <<[p EXCEPT ![id] = TrustedPeer(id, Fingerprint(cert), t, a)], "mismatch">>
         ELSE <<[p EXCEPT ![id].last_seen = t], "accept">>
    ELSE <<(id :> TrustedPeer(id, Fingerprint(cert), t, a)) @@ p, "accept">>

\* verify_or_remember up to the call of save(): the map after it and whether
\* it returned the mismatch error or went on to save()
VerifyOrRememberMap(p, id, cert, a, t) ==
    IF id \in DOMAIN p
    THEN IF p[id].fingerprint # Fingerprint(cert)
         THEN <<p, "mismatch">>
         ELSE <<[p EXCEPT ![id].last_seen = t], "accept">>
    ELSE <<(id :> TrustedPeer(id, Fingerprint(cert), t, a)) @@ p, "accept">>

\* is_trusted
IsTrusted(p, id) == id \in DOMAIN p

\* The JSON document as a sequence of tokens: the opening brace, one token
\* per "id": {record} member, the closing brace.
TokOpen  == <<"{">>
TokClose == <<"}">>
TokMember(id, rec) == <<"member", id, rec>>

\* serde_json::to_string_pretty(&*peers): the members in the map's iteration
\* order, which is any order
Serialise(p) ==
    {<<TokOpen>> \o [i \in 1..Len(o) |-> TokMember(o[i], p[o[i]])] \o <<TokClose>> :
        o \in Orders(DOMAIN p)}

\* serde_json::from_str succeeds on a complete document only
Parses(b) ==
    /\ Len(b) >= 2
    /\ b[1] = TokOpen
    /\ b[Len(b)] = TokClose
    /\ \A i \in 2..(Len(b) - 1) : Len(b[i]) = 3

ParsedPeers(b) ==
    [id \in {b[i][2] : i \in 2..(Len(b) - 1)} |->
        (CHOOSE i \in 2..(Len(b) - 1) : b[i][2] = id) ]

Deserialise(b) == [id \in DOMAIN ParsedPeers(b) |-> b[ParsedPeers(b)[id]][3]]

LockFree == rwWriter = "none" /\ rwReaders = {}

\* verify_or_remember(burrow_id, cert_pem, anchor): write().await, the
\* lookup, and either the early return of the mismatch error (the guard is
\* dropped) or the update followed by self.save().await, entered with the
\* write guard still in scope.
VerifyOrRemember(t, id, cert, a) ==
    /\ tpc[t] = "idle"
    /\ LockFree
    /\ LET r == VerifyOrRememberMap(peers, id, cert, a, utc)
       IN  /\ peers' = r[1]
           /\ IF r[2] = "mismatch"
              THEN /\ tres' = [tres EXCEPT ![t] = "mismatch"]
                   /\ UNCHANGED <<rwWriter, tpc>>
              ELSE /\ tres' = [tres EXCEPT ![t] = "none"]
                   /\ rwWriter' = t
                   /\ tpc' = [tpc EXCEPT ![t] = "save_read"]
    /\ UNCHANGED <<nonTrustVars, trustFile, rwReaders, sdata, utc>>

\* save() called by the burrow's task
SaveCall(t) ==
    /\ t = "op"
    /\ tpc[t] = "idle"
    /\ tpc' = [tpc EXCEPT ![t] = "save_read"]
    /\ tres' = [tres EXCEPT ![t] = "none"]
    /\ UNCHANGED <<nonTrustVars, peers, trustFile, rwWriter, rwReaders, sdata, utc>>

\* save(): let peers = self.peers.read().await; to_string_pretty
SaveLockRead(t) ==
    /\ tpc[t] = "save_read"
    /\ rwWriter = "none"
    /\ rwReaders' = rwReaders \cup {t}
    /\ \E d \in Serialise(peers) : sdata' = [sdata EXCEPT ![t] = d]
    /\ tpc' = [tpc EXCEPT ![t] = "save_create"]
    /\ UNCHANGED <<nonTrustVars, peers, trustFile, rwWriter, tres, utc>>

\* save() returns (and with it verify_or_remember, when it made the call):
\* the guards of the task are dropped
SaveReturn(t, result) ==
    /\ tpc' = [tpc EXCEPT ![t] = "idle"]
    /\ tres' = [tres EXCEPT ![t] = result]
    /\ sdata' = [sdata EXCEPT ![t] = << >>]
    /\ rwReaders' = rwReaders \ {t}
    /\ rwWriter' = IF rwWriter = t THEN "none" ELSE rwWriter

\* fs::write(&self.store_path, data): File::create truncates the file in place
SaveCreate(t, ok) ==
    /\ tpc[t] = "save_create"
    /\ IF ok
       THEN /\ trustFile' = [exists |-> TRUE, bytes |-> << >>]
            /\ tpc' = [tpc EXCEPT ![t] = "save_write"]
            /\ UNCHANGED <<rwWriter, rwReaders, sdata, tres>>
       ELSE /\ SaveReturn(t, "io")
            /\ UNCHANGED trustFile
    /\ UNCHANGED <<nonTrustVars, peers, utc>>

\* fs::write: write_all, one piece of the text at a time; Ok(()) after the last
SaveWriteChunk(t, ok) ==
    /\ tpc[t] = "save_write"
    /\ IF ok
       THEN /\ trustFile' = [trustFile EXCEPT !.bytes = Append(@, Head(sdata[t]))]
            /\ IF Len(sdata[t]) = 1
               THEN SaveReturn(t, "ok")
               ELSE /\ sdata' = [sdata EXCEPT ![t] = Tail(@)]
                    /\ UNCHANGED <<rwWriter, rwReaders, tpc, tres>>
       ELSE /\ SaveReturn(t, "io")
            /\ UNCHANGED trustFile
    /\ UNCHANGED <<nonTrustVars, peers, utc>>

\* The future of a call waiting at self.peers.read().await is dropped by its
\* caller (the connection task ends): the guards it holds are released.
DropFuture(t) ==
    /\ tpc[t] = "save_read"
    /\ tpc' = [tpc EXCEPT ![t] = "idle"]
    /\ tres' = [tres EXCEPT ![t] = "dropped"]
    /\ rwWriter' = IF rwWriter = t THEN "none" ELSE rwWriter
    /\ UNCHANGED <<nonTrustVars, peers, trustFile, rwReaders, sdata, utc>>

\* load(): nothing when the file is absent, the parse error when from_str
\* fails, else write().await and the map is replaced
LoadCall(t) ==
    /\ t = "op"
    /\ tpc[t] = "idle"
    /\ IF ~trustFile.exists
       THEN /\ tres' = [tres EXCEPT ![t] = "ok"]
            /\ UNCHANGED peers
       ELSE IF ~Parses(trustFile.bytes)
            THEN /\ tres' = [tres EXCEPT ![t] = "parse"]
                 /\ UNCHANGED peers
            ELSE /\ LockFree
                 /\ peers' = Deserialise(trustFile.bytes)
                 /\ tres' = [tres EXCEPT ![t] = "ok"]
    /\ UNCHANGED <<nonTrustVars, trustFile, rwWriter, rwReaders, tpc, sdata, utc>>

\* The process stops at any point and the burrow is started again:
\* TrustCache::new gives an empty map, the file is as the stop left it.
CrashRestart ==
    /\ \E t \in TrustTasks : tpc[t] # "idle"
    /\ peers' = EmptyMap
    /\ rwWriter' = "none"
    /\ rwReaders' = {}
    /\ tpc' = [t \in TrustTasks |-> "idle"]
    /\ sdata' = [t \in TrustTasks |-> << >>]
    /\ tres' = [t \in TrustTasks |-> "none"]
    /\ UNCHANGED <<nonTrustVars, trustFile, utc>>

UtcTick ==
    /\ utc < MaxUtc
    /\ utc' = utc + 1
    /\ UNCHANGED <<coreVars, trustVars, contVars, frameVars, wireVars, authVars, permVars,
                   addVars, maniVars, closeVars, pruneVars, fullVars>>

TaskStep(t) ==
    \/ SaveLockRead(t)
    \/ \E ok \in BOOLEAN : SaveCreate(t, ok)
    \/ \E ok \in BOOLEAN : SaveWriteChunk(t, ok)

NextTrust ==
    \/ \E t \in TrustTasks, id \in TrustIds, c \in Certs, a \in Anchors : VerifyOrRemember(t, id, c, a)
    \/ \E t \in TrustTasks : SaveCall(t)
    \/ \E t \in TrustTasks : TaskStep(t)
    \/ \E t \in TrustTasks : DropFuture(t)
    \/ \E t \in TrustTasks : LoadCall(t)
    \/ CrashRestart
    \/ UtcTick

InitTrustSpec == Init /\ overflowChecks = TRUE

SpecTrust == InitTrustSpec /\ [][NextTrust]_vars

\* every call that can take a step eventually takes it
SpecTrustFair == SpecTrust /\ \A t \in TrustTasks : WF_vars(TaskStep(t))

\* ------------------------------------------------------------------- text
\* Text is a sequence of characters; a character is an integer: 0..9 are the
\* decimal digits, the negative numbers are the other characters.

TAB        == -1
LF         == -2
CR         == -3
SP         == -4
Colon      == -5
Slash      == -6
Underscore == -7
LetterA    == -8
LetterB    == -9
\* words of the protocol, one character each
WordHello        == -11
WordAck          == -12
WordCredit       == -13
WordSessionToken == -14
WordLane         == -30
WordSeq          == -31
WordEvent        == -32

Digits == 0..9

\* n.to_string() / format!("{}", n) of an unsigned number
RECURSIVE Dec(_)
Dec(n) == IF n < 10 THEN <<n>> ELSE Dec(n \div 10) \o <<n % 10>>

RECURSIVE DecValue(_)
DecValue(s) == IF s = << >> THEN 0 ELSE 10 * DecValue(SubSeq(s, 1, Len(s) - 1)) + s[Len(s)]

\* str::parse::<unsigned>().unwrap_or(0) on the small numbers of the model
ParseOr0(s) ==
    IF s # << >> /\ \A i \in 1..Len(s) : s[i] \in Digits THEN DecValue(s) ELSE 0

\* str::split(sep): the pieces between the separators, k separators give k + 1 pieces
RECURSIVE SplitOn(_, _)
SplitOn(s, sep) ==
    IF \A i \in 1..Len(s) : s[i] # sep
    THEN <<s>>
    ELSE LET k == CHOOSE i \in 1..Len(s) : s[i] = sep /\ \A j \in 1..(i - 1) : s[j] # sep
         IN  <<SubSeq(s, 1, k - 1)>> \o SplitOn(SubSeq(s, k + 1, Len(s)), sep)

\* str::lines(): split at "\n", no empty last line, a trailing "\r" of a line removed
Lines(s) ==
    LET p == SplitOn(s, LF)
        q == IF p[Len(p)] = << >> THEN SubSeq(p, 1, Len(p) - 1) ELSE p
    IN  [i \in 1..Len(q) |->
            IF q[i] # << >> /\ q[i][Len(q[i])] = CR THEN SubSeq(q[i], 1, Len(q[i]) - 1) ELSE q[i]]

\* ------------------------------------------------------- ContinuityEngine
\* events/continuity.rs.  streams is a tokio RwLock<HashMap<String, Vec>>;
\* append holds its write guard from the first statement to the return.

ContTopics == {<<LetterA, Slash, LetterB>>}
ContLanes  == {1}
BodyChars  == {LetterA, TAB, LF}

RECURSIVE TextsUpTo(_, _)
TextsUpTo(chars, n) ==
    IF n = 0 THEN {<< >>}
    ELSE LET shorter == TextsUpTo(chars, n - 1)
         IN  shorter \cup {Append(s, c) : s \in shorter, c \in chars}

Bodies == TextsUpTo(BodyChars, MaxBodyLen)

StoredEvent(q, ts, l, topic, body) ==
    [seq |-> q, timestamp |-> ts, lane |-> l, topic |-> topic, data |-> body]

\* log_path: "<topic with '/' replaced by '_'>.log" under base_path
LogPath(topic) == [i \in 1..Len(topic) |-> IF topic[i] = Slash THEN Underscore ELSE topic[i]]

\* format!("{}\t{}\t{}\t{}\n", seq, entry.timestamp, lane, body)
FormatLine(q, ts, l, body) ==
    Dec(q) \o <<TAB>> \o Dec(ts) \o <<TAB>> \o Dec(l) \o <<TAB>> \o body \o <<LF>>

\* the body of the for loop of load_topic, for the lines with four parts
EventOfLine(line, topic) ==
    LET parts == SplitOn(line, TAB)
    IN  StoredEvent(ParseOr0(parts[1]), ParseOr0(parts[2]), ParseOr0(parts[3]), topic, parts[4])

RECURSIVE EventsOfLines(_, _)
EventsOfLines(ls, topic) ==
    IF ls = << >> THEN << >>
    ELSE IF Len(SplitOn(Head(ls), TAB)) < 4
         THEN EventsOfLines(Tail(ls), topic)
         ELSE <<EventOfLine(Head(ls), topic)>> \o EventsOfLines(Tail(ls), topic)

\* load_topic: the events read from the text of the log file
ParseLog(content, topic) == EventsOfLines(Lines(content), topic)

\* the frame replay builds for one event
EventFrame(e, topic) ==
    [verb |-> "EVENT", args |-> << >>,
     headers |-> [h \in {"Lane", "Seq", "Selector"} |->
                     IF h = "Lane" THEN Dec(e.lane) ELSE IF h = "Seq" THEN Dec(e.seq) ELSE topic],
     body |-> [some |-> TRUE, val |-> e.data]]

\* replay: filter(|e| since.map(|s| e.seq > s).unwrap_or(true)).map(frame)
RECURSIVE ReplayEvents(_, _, _)
ReplayEvents(events, topic, since) ==
    IF events = << >> THEN << >>
    ELSE IF since.some /\ ~(Head(events).seq > since.val)
         THEN ReplayEvents(Tail(events), topic, since)
         ELSE <<EventFrame(Head(events), topic)>> \o ReplayEvents(Tail(events), topic, since)

Replay(s, topic, since) ==
    IF topic \in DOMAIN s THEN ReplayEvents(s[topic], topic, since) ELSE << >>

\* append, first half: write().await, the event pushed to the topic's vector
\* (created when absent), the line formatted
AppendPush(topic, l, q, body) ==
    /\ apc = "idle"
    /\ nAppends < MaxAppends
    /\ nAppends' = nAppends + 1
    /\ appBefore' = streams
    /\ streams' = (topic :> (IF topic \in DOMAIN streams THEN streams[topic] ELSE << >>)
                                \o <<StoredEvent(q, utc, l, topic, body)>>)
                  @@ streams
    /\ aline' = [path |-> LogPath(topic), text |-> FormatLine(q, utc, l, body)]
    /\ apc' = "write"
    /\ UNCHANGED <<nonContVars, utc, logFiles, lpc, lbuf, replayed, replayArg, appFailed>>

\* append, second half: the file opened for appending (created when absent)
\* and the line written, or the error of either returned by `?`; the guard
\* is dropped on return
AppendWrite(ok) ==
    /\ apc = "write"
    /\ IF ok
       THEN /\ logFiles' = (aline.path :> ((IF aline.path \in DOMAIN logFiles
                                           THEN logFiles[aline.path] ELSE << >>) \o aline.text))
                           @@ logFiles
            /\ UNCHANGED appFailed
       ELSE /\ appFailed' = TRUE
            /\ UNCHANGED logFiles
    /\ apc' = "idle"
    /\ aline' = [path |-> << >>, text |-> << >>]
    /\ appBefore' = EmptyMap
    /\ UNCHANGED <<nonContVars, utc, streams, lpc, lbuf, replayed, replayArg, nAppends>>

\* load_topic, first half: nothing when the file is absent, else the file is
\* read and parsed (no guard is held)
LoadTopicRead(topic) ==
    /\ lpc = "idle"
    /\ IF LogPath(topic) \notin DOMAIN logFiles
       THEN UNCHANGED <<lpc, lbuf>>
       ELSE /\ lpc' = "parsed"
            /\ lbuf' = [topic |-> topic, events |-> ParseLog(logFiles[LogPath(topic)], topic)]
    /\ UNCHANGED <<nonContVars, utc, streams, logFiles, apc, aline, replayed, replayArg,
                   nAppends, appFailed, appBefore>>

\* load_topic, second half: self.streams.write().await.insert(topic, events)
LoadTopicStore ==
    /\ lpc = "parsed"
    /\ apc = "idle"
    /\ streams' = (lbuf.topic :> lbuf.events) @@ streams
    /\ lpc' = "idle"
    /\ lbuf' = [topic |-> << >>, events |-> << >>]
    /\ UNCHANGED <<nonContVars, utc, logFiles, apc, aline, replayed, replayArg,
                   nAppends, appFailed, appBefore>>

\* replay(topic, since): read().await, the frames collected
ReplayCall(topic, since) ==
    /\ apc = "idle"
    /\ replayed' = Replay(streams, topic, since)
    /\ replayArg' = [topic |-> topic, since |-> since]
    /\ UNCHANGED <<nonContVars, utc, streams, logFiles, apc, aline, lpc, lbuf,
                   nAppends, appFailed, appBefore>>

Sinces == {NoSince} \cup {Since(v) : v \in 0..MaxEventSeq}

NextCont ==
    \/ \E topic \in ContTopics, l \in ContLanes, q \in 1..MaxEventSeq, body \in Bodies :
           AppendPush(topic, l, q, body)
    \/ \E ok \in BOOLEAN : AppendWrite(ok)
    \/ \E topic \in ContTopics : LoadTopicRead(topic)
    \/ LoadTopicStore
    \/ \E topic \in ContTopics, since \in Sinces : ReplayCall(topic, since)
    \/ UtcTick

SpecCont == InitTrustSpec /\ [][NextCont]_vars

\* bodies that a log line holds unchanged (no tab, no newline)
PlainBodies == {<< >>, <<LetterA>>}

\* append and load_topic of one topic by concurrent tasks
NextRace ==
    \/ \E topic \in ContTopics, l \in ContLanes, q \in 1..MaxEventSeq, body \in PlainBodies :
           AppendPush(topic, l, q, body)
    \/ \E ok \in BOOLEAN : AppendWrite(ok)
    \/ \E topic \in ContTopics : LoadTopicRead(topic)
    \/ LoadTopicStore

SpecRace == InitTrustSpec /\ [][NextRace]_vars

\* the events of a topic in memory (none when the topic has no vector)
StreamOf(s, topic) == IF topic \in DOMAIN s THEN s[topic] ELSE << >>

\* prune: events.drain(0..len - max_events) when len > max_events
Prune(s, topic, max_events) ==
    IF topic \in DOMAIN s /\ Len(s[topic]) > max_events
    THEN [s EXCEPT ![topic] = SubSeq(@, Len(@) - max_events + 1, Len(@))]
    ELSE s

\* prune(topic, max_events): write().await, the oldest events drained
PruneCall(topic, max_events) ==
    /\ apc = "idle"
    /\ lpc = "idle"
    /\ ~pruned.called
    /\ streams' = Prune(streams, topic, max_events)
    /\ pruned' = [called |-> TRUE, topic |-> topic, max |-> max_events,
                  before |-> StreamOf(streams, topic), logBefore |-> logFiles,
                  loaded |-> FALSE]
    /\ UNCHANGED <<nonContPruneVars, logFiles, apc, aline, lpc, lbuf, replayed, replayArg,
                   nAppends, appFailed, appBefore>>

\* load_topic on the streams s and the files: nothing when the log file is
\* absent, else the topic's vector replaced by the events parsed
LoadTopicMap(s, files, topic) ==
    IF LogPath(topic) \notin DOMAIN files
    THEN s
    ELSE (topic :> ParseLog(files[LogPath(topic)], topic)) @@ s

\* load_topic(topic) run from its first statement to its return with no
\* other task in between
LoadTopicCall(topic) ==
    /\ apc = "idle"
    /\ lpc = "idle"
    /\ streams' = LoadTopicMap(streams, logFiles, topic)
    /\ pruned' = [pruned EXCEPT !.loaded = @ \/ (pruned.called /\ topic = pruned.topic)]
    /\ UNCHANGED <<nonContPruneVars, logFiles, apc, aline, lpc, lbuf, replayed, replayArg,
                   nAppends, appFailed, appBefore>>

\* appends, then one prune, then loads
NextPrune ==
    \/ \E topic \in ContTopics, l \in ContLanes, q \in 1..MaxEventSeq, body \in Bodies :
           ~pruned.called /\ AppendPush(topic, l, q, body)
    \/ \E ok \in BOOLEAN : AppendWrite(ok)
    \/ \E topic \in ContTopics, max_events \in 0..MaxPrune : PruneCall(topic, max_events)
    \/ \E topic \in ContTopics : LoadTopicCall(topic)

SpecPrune == InitTrustSpec /\ [][NextPrune]_vars

\* two topics that differ only in '/' versus '_'
TwoTopics == {<<LetterA, Slash, LetterB>>, <<LetterA, Underscore, LetterB>>}

\* appends to either topic, loads and replays of either topic
NextTopics ==
    \/ \E topic \in TwoTopics, l \in ContLanes, q \in 1..MaxEventSeq, body \in PlainBodies :
           AppendPush(topic, l, q, body)
    \/ \E ok \in BOOLEAN : AppendWrite(ok)
    \/ \E topic \in TwoTopics : LoadTopicCall(topic)
    \/ \E topic \in TwoTopics : ReplayCall(topic, NoSince)

SpecTopics == InitTrustSpec /\ [][NextTopics]_vars

\* ------------------------------------------------------------------ Frame
\* protocol/frame.rs.  A frame is [verb, args, headers, body]: verb a text,
\* args a sequence of texts, headers a map from text to text, body None or
\* Some(text).

\* the word "End", one character of the model
EndWord == -10

CRLF      == <<CR, LF>>
EndMarker == <<EndWord, Colon>>

IsWhitespace(c) == c \in {SP, TAB, LF, CR}

\* Frame::new(verb)
FrameNew(verb) == [verb |-> verb, args |-> << >>, headers |-> EmptyMap, body |-> None]

\* set_header: HashMap::insert, the value of an existing key is replaced
SetHeader(f, k, v) ==
    [f EXCEPT !.headers = (k :> v) @@ [h \in DOMAIN f.headers \ {k} |-> f.headers[h]]]

\* [String]::join(sep)
RECURSIVE Join(_, _)
Join(parts, sep) ==
    IF parts = << >> THEN << >>
    ELSE IF Len(parts) = 1 THEN parts[1]
    ELSE parts[1] \o sep \o Join(Tail(parts), sep)

\* the header lines of to_string for the keys in the order o
RECURSIVE HeaderLines(_, _)
HeaderLines(h, o) ==
    IF o = << >> THEN << >>
    ELSE Head(o) \o <<Colon, SP>> \o h[Head(o)] \o CRLF \o HeaderLines(h, Tail(o))

\* (a to_string that writes the whole start line as given, for any order)
FrameToStringFor(f, o) ==
    f.verb \o (IF f.args # << >> THEN <<SP>> \o Join(f.args, <<SP>>) ELSE << >>) \o CRLF
    \o HeaderLines(f.headers, o) \o EndMarker \o CRLF
    \o (IF f.body.some THEN f.body.val ELSE << >>)

\* Frame::to_string: the texts it can return, one per iteration order of the
\* header map
FrameToStrings(f) == {FrameToStringFor(f, o) : o \in Orders(DOMAIN f.headers)}

\* str::split("\r\n")
RECURSIVE SplitOnCRLF(_)
SplitOnCRLF(s) ==
    IF \A i \in 1..(Len(s) - 1) : ~(s[i] = CR /\ s[i + 1] = LF)
    THEN <<s>>
    ELSE LET k == CHOOSE i \in 1..(Len(s) - 1) :
                      /\ s[i] = CR /\ s[i + 1] = LF
                      /\ \A j \in 1..(i - 1) : ~(s[j] = CR /\ s[j + 1] = LF)
         IN  <<SubSeq(s, 1, k - 1)>> \o SplitOnCRLF(SubSeq(s, k + 2, Len(s)))

\* str::trim
RECURSIVE TrimStart(_)
TrimStart(s) == IF s # << >> /\ IsWhitespace(Head(s)) THEN TrimStart(Tail(s)) ELSE s

RECURSIVE TrimEnd(_)
TrimEnd(s) ==
    IF s # << >> /\ IsWhitespace(s[Len(s)]) THEN TrimEnd(SubSeq(s, 1, Len(s) - 1)) ELSE s

Trim(s) == TrimEnd(TrimStart(s))

\* str::split_whitespace: the maximal runs of characters that are not whitespace
RECURSIVE SplitWhitespace(_)
SplitWhitespace(s) ==
    LET t == TrimStart(s)
    IN  IF t = << >> THEN << >>
        ELSE LET stops == {i \in 1..Len(t) : IsWhitespace(t[i])}
                 n == IF stops = {} THEN Len(t)
                      ELSE (CHOOSE i \in stops : \A j \in stops : i <= j) - 1
             IN  <<SubSeq(t, 1, n)>> \o SplitWhitespace(SubSeq(t, n + 1, Len(t)))

\* the for loop of Frame::parse over the lines after the start line
RECURSIVE ParseLines(_, _, _, _)
ParseLines(ls, in_body, headers, body_lines) ==
    IF ls = << >> THEN [headers |-> headers, body_lines |-> body_lines]
    ELSE LET line == Head(ls)
         IN  IF in_body
             THEN ParseLines(Tail(ls), TRUE, headers, Append(body_lines, line))
             ELSE IF line = EndMarker
             THEN ParseLines(Tail(ls), TRUE, headers, body_lines)
             ELSE IF line = << >>
             THEN ParseLines(Tail(ls), FALSE, headers, body_lines)
             ELSE IF \E i \in 1..Len(line) : line[i] = Colon
             THEN LET k == CHOOSE i \in 1..Len(line) :
                               line[i] = Colon /\ \A j \in 1..(i - 1) : line[j] # Colon
                      key == Trim(SubSeq(line, 1, k - 1))
                      val == Trim(SubSeq(line, k + 1, Len(line)))
                  IN  ParseLines(Tail(ls), FALSE,
                                 (key :> val) @@ [h \in DOMAIN headers \ {key} |-> headers[h]],
                                 body_lines)
             ELSE ParseLines(Tail(ls), FALSE, headers, body_lines)

ParseError == [ok |-> FALSE, verb |-> << >>, args |-> << >>, headers |-> EmptyMap, body |-> None]

\* Frame::parse: Err when the start line has no token, else the frame
FrameParse(raw) ==
    LET lines == SplitOnCRLF(raw)
        parts == SplitWhitespace(lines[1])
    IN  IF parts = << >> THEN ParseError
        ELSE LET r == ParseLines(Tail(lines), FALSE, EmptyMap, << >>)
             IN  [ok |-> TRUE, verb |-> parts[1], args |-> Tail(parts), headers |-> r.headers,
                  body |-> IF r.body_lines = << >> THEN None ELSE Some(Join(r.body_lines, CRLF))]

Verbs      == {<<LetterA>>, <<2, SP, LetterA>>}
HeaderKeys == {<<LetterA>>, <<LetterB>>}
HeaderVals == {<<LetterB>>}
ArgLists   == {<< >>, <<<<LetterB>>>>}
FrameBodies == {None, Some(<< >>), Some(<<LetterA>>), Some(<<LetterA, CR, LF, LetterB>>)}

\* let mut frame = Frame::new(verb)
BuildNew(verb) ==
    /\ fpc \in {"none", "parsed"}
    /\ built' = FrameNew(verb)
    /\ fpc' = "build"
    /\ ftext' = << >>
    /\ fparsed' = ParseError
    /\ UNCHANGED <<nonFrameVars>>

\* frame.set_header(k, v)
BuildSetHeader(k, v) ==
    /\ fpc = "build"
    /\ built' = SetHeader(built, k, v)
    /\ UNCHANGED <<nonFrameVars, fpc, ftext, fparsed>>

\* frame.args = args
BuildSetArgs(a) ==
    /\ fpc = "build"
    /\ built' = [built EXCEPT !.args = a]
    /\ UNCHANGED <<nonFrameVars, fpc, ftext, fparsed>>

\* frame.body = body
BuildSetBody(b) ==
    /\ fpc = "build"
    /\ built' = [built EXCEPT !.body = b]
    /\ UNCHANGED <<nonFrameVars, fpc, ftext, fparsed>>

\* let text = frame.to_string()
FrameToStringCall ==
    /\ fpc = "build"
    /\ ftext' \in FrameToStrings(built)
    /\ fpc' = "text"
    /\ UNCHANGED <<nonFrameVars, built, fparsed>>

\* Frame::parse(&text)
FrameParseCall ==
    /\ fpc = "text"
    /\ fparsed' = FrameParse(ftext)
    /\ fpc' = "parsed"
    /\ UNCHANGED <<nonFrameVars, built, ftext>>

NextFrame ==
    \/ \E verb \in Verbs : BuildNew(verb)
    \/ \E k \in HeaderKeys, v \in HeaderVals : BuildSetHeader(k, v)
    \/ \E a \in ArgLists : BuildSetArgs(a)
    \/ \E b \in FrameBodies : BuildSetBody(b)
    \/ FrameToStringCall
    \/ FrameParseCall

SpecFrame == InitTrustSpec /\ [][NextFrame]_vars

\* --------------------------------------------------------- SecureTunnel
\* network/transport.rs and the reader task of Burrow::start_listener: a peer
\* writes frames to the stream with send_frame, it may also write any bytes
\* or close; the reader task calls read_frame in a loop.  A read returns what
\* one write put on the stream.

WireFrames == {FrameNew(<<LetterA>>),
               SetHeader(FrameNew(<<2, SP, LetterA>>), <<LetterA>>, <<LetterB>>)}
RawTexts   == {<<SP>>, <<CR, LF, LetterA>>, <<LetterA>>}

\* send_frame: write_all(frame.to_string())
SendFrame(f) ==
    /\ nWrites < MaxWrites
    /\ nWrites' = nWrites + 1
    /\ \E text \in FrameToStrings(f) : wire' = Append(wire, [eof |-> FALSE, text |-> text])
    /\ UNCHANGED <<nonWireVars, tunpc, nProcessed, sawMalformed, replies, lastRead>>

\* the peer writes bytes of its own
PeerWriteRaw(text) ==
    /\ nWrites < MaxWrites
    /\ nWrites' = nWrites + 1
    /\ wire' = Append(wire, [eof |-> FALSE, text |-> text])
    /\ UNCHANGED <<nonWireVars, tunpc, nProcessed, sawMalformed, replies, lastRead>>

\* the peer closes the connection
PeerClose ==
    /\ nWrites < MaxWrites
    /\ nWrites' = nWrites + 1
    /\ wire' = Append(wire, [eof |-> TRUE, text |-> << >>])
    /\ UNCHANGED <<nonWireVars, tunpc, nProcessed, sawMalformed, replies, lastRead>>

\* (a reader that goes on reading after an error)
ReaderAfterKeepsReading(result) == IF result = "closed" THEN "closed" ELSE "reading"

\* the match of the reader task: Ok(Some(frame)) loops, Ok(None) and Err(e) break
ReaderAfter(result) == IF result = "frame" THEN "reading" ELSE "closed"

\* read_frame: Ok(None) when the read returns 0 bytes, else Frame::parse(text)
ReadFrameResult(chunk) ==
    IF chunk.eof THEN "closed"
    ELSE IF FrameParse(chunk.text).ok THEN "frame" ELSE "error"

\* one turn of the reader task's loop
ReadFrame ==
    /\ tunpc = "reading"
    /\ wire # << >>
    /\ wire' = Tail(wire)
    /\ tunpc' = ReaderAfter(ReadFrameResult(Head(wire)))
    /\ nProcessed' = IF ReadFrameResult(Head(wire)) = "frame" THEN nProcessed + 1 ELSE nProcessed
    /\ sawMalformed' = (sawMalformed \/ ReadFrameResult(Head(wire)) = "error")
    /\ lastRead' = IF ReadFrameResult(Head(wire)) = "frame"
                   THEN [some |-> TRUE, frame |-> FrameParse(Head(wire).text)]
                   ELSE lastRead
    \* the callback prints the frame: it calls neither require_auth nor send_frame
    /\ UNCHANGED <<nonWireVars, nWrites, replies>>

NextWire ==
    \/ \E f \in WireFrames : SendFrame(f)
    \/ \E text \in RawTexts : PeerWriteRaw(text)
    \/ PeerClose
    \/ ReadFrame

SpecWire == InitTrustSpec /\ [][NextWire]_vars

\* a data frame of lane l with sequence number q
DataFrame(l, q) ==
    SetHeader(SetHeader(FrameNew(<<WordEvent>>), <<WordLane>>, Dec(l)), <<WordSeq>>, Dec(q))

\* the data frames the peer sends: sequence numbers below, at and above the
\* 1 a new lane expects
InboundFrames == {DataFrame(DataLane, q) : q \in 0..MaxInSeq}

\* the peer sends data frames, the reader task reads them
NextInbound ==
    \/ \E f \in InboundFrames : SendFrame(f)
    \/ PeerClose
    \/ ReadFrame

SpecInbound == InitTrustSpec /\ [][NextInbound]_vars

\* ------------------------------------------- IdentityManager, Authenticator
\* security/identity.rs (sessions) and security/auth.rs (require_auth).

\* uuid::Uuid::new_v4().to_string(): any of the tokens
Tokens     == {"t1", "t2"}
\* the values a Session-Token header can have: an issued token or another text
TokenTexts == Tokens \cup {"tx"}
PeerIds    == {"anonymous", "peerA"}

NoToken     == [some |-> FALSE, val |-> ""]
SomeToken(t) == [some |-> TRUE, val |-> t]
TokenHdrs   == {NoToken} \cup {SomeToken(t) : t \in TokenTexts}

Session(peer, token, t, anon) ==
    [peer_id |-> peer, token |-> token, issued_at |-> t, expires_at |-> t + SessionTtl,
     is_anonymous |-> anon]

\* (a validate_token that does not look at expires_at)
ValidateTokenIgnoresExpiry(s, token, t) == token \in DOMAIN s

\* validate_token: the session exists and Utc::now().timestamp() < expires_at
ValidateToken(s, token, t) == token \in DOMAIN s /\ t < s[token].expires_at

\* require_auth: Ok(()) for Some(token) when validate_token, else Err
RequireAuthOk(s, hdr, t) == hdr.some /\ ValidateToken(s, hdr.val, t)

\* create_session(peer_id, is_anonymous): the session inserted under a new
\* token, the token returned
CreateSession(token, peer) ==
    /\ sessions' = (token :> Session(peer, token, utc, peer = "anonymous"))
                   @@ [k \in DOMAIN sessions \ {token} |-> sessions[k]]
    /\ issued' = issued \cup {token}
    /\ UNCHANGED <<nonAuthVars, utc, authRes, helloRes>>

\* refresh_session(token): expires_at moved to an hour from now, or the error
\* for an unknown token
RefreshSession(token) ==
    /\ IF token \in DOMAIN sessions
       THEN sessions' = [sessions EXCEPT ![token].expires_at = utc + SessionTtl]
       ELSE UNCHANGED sessions
    /\ UNCHANGED <<nonAuthVars, utc, issued, authRes, helloRes>>

\* require_auth(frame), hdr being frame.header("Session-Token")
RequireAuth(hdr) ==
    /\ authRes' = [called |-> TRUE, ok |-> RequireAuthOk(sessions, hdr, utc), hdr |-> hdr]
    /\ UNCHANGED <<nonAuthVars, utc, sessions, issued, helloRes>>

\* the values of the Scheme and Burrow-ID headers of a HELLO frame
SchemeHdrs == {[some |-> FALSE, val |-> ""],
               [some |-> TRUE, val |-> "RABBIT-SECURE-1"],
               [some |-> TRUE, val |-> "rabbit-secure-1"]}
BurrowIdHdrs == {[some |-> FALSE, val |-> ""]} \cup {[some |-> TRUE, val |-> p] : p \in PeerIds}

\* (a process_hello that issues the session before it looks at the scheme)
ProcessHelloSessionFirst(s, iss, scheme, bid, token, t) ==
    LET peer == IF bid.some THEN bid.val ELSE "anonymous"
    IN  [res      |-> IF ~scheme.some THEN "missing"
                      ELSE IF scheme.val # "RABBIT-SECURE-1" THEN "unsupported" ELSE "ok",
         sessions |-> (token :> Session(peer, token, t, peer = "anonymous"))
                      @@ [k \in DOMAIN s \ {token} |-> s[k]],
         issued   |-> iss \cup {token},
         token    |-> token]

\* process_hello: the error for a missing or another scheme; else
\* create_session(Some(peer_id), peer_id == "anonymous") and the reply
\* 200 HELLO carrying the token
ProcessHelloMap(s, iss, scheme, bid, token, t) ==
    IF ~scheme.some
    THEN [res |-> "missing", sessions |-> s, issued |-> iss, token |-> ""]
    ELSE IF scheme.val # "RABBIT-SECURE-1"
    THEN [res |-> "unsupported", sessions |-> s, issued |-> iss, token |-> ""]
    ELSE LET peer == IF bid.some THEN bid.val ELSE "anonymous"
         IN  [res      |-> "ok",
              sessions |-> (token :> Session(peer, token, t, peer = "anonymous"))
                           @@ [k \in DOMAIN s \ {token} |-> s[k]],
              issued   |-> iss \cup {token},
              token    |-> token]

\* process_hello(frame); token is what Uuid::new_v4 returns if it is reached
ProcessHello(scheme, bid, token) ==
    LET r == ProcessHelloMap(sessions, issued, scheme, bid, token, utc)
    IN  /\ sessions' = r.sessions
        /\ issued' = r.issued
        /\ helloRes' = [called |-> TRUE, res |-> r.res, token |-> r.token]
        /\ UNCHANGED <<nonAuthVars, utc, authRes>>

NextAuth ==
    \/ \E token \in Tokens, peer \in PeerIds : CreateSession(token, peer)
    \/ \E scheme \in SchemeHdrs, bid \in BurrowIdHdrs, token \in Tokens :
           ProcessHello(scheme, bid, token)
    \/ \E token \in TokenTexts : RefreshSession(token)
    \/ \E hdr \in TokenHdrs : RequireAuth(hdr)
    \/ UtcTick

SpecAuth == InitTrustSpec /\ [][NextAuth]_vars

\* ------------------------------------- CapabilityManager, DelegationManager
\* security/permissions.rs (grants behind a tokio RwLock, each operation
\* one critical section) and security/delegation.rs.

Capabilities == {"Fetch", "List", "Publish", "Subscribe", "ManageWarren", "ManageBurrows",
                 "Federation", "UIControl"}

\* characters of header values: the separator of Caps, the signs of TTL, and
\* the capability names, one character each (FETCH is fetch in capitals)
Comma             == -15
Minus             == -16
Plus              == -17
WordFetch         == -20
WordList          == -21
WordPublish       == -22
WordSubscribe     == -23
WordManageWarren  == -24
WordManageBurrows == -25
WordFederation    == -26
WordUi            == -27
WordFetchUpper    == -28

DefaultTtl == 600

\* str::to_lowercase
ToLowercase(s) == [i \in 1..Len(s) |-> IF s[i] = WordFetchUpper THEN WordFetch ELSE s[i]]

\* the match of handle_delegate on a trimmed, lower-cased name
CapabilityOfName(name) ==
    IF name = <<WordFetch>> THEN Some("Fetch")
    ELSE IF name = <<WordList>> THEN Some("List")
    ELSE IF name = <<WordPublish>> THEN Some("Publish")
    ELSE IF name = <<WordSubscribe>> THEN Some("Subscribe")
    ELSE IF name = <<WordManageWarren>> THEN Some("ManageWarren")
    ELSE IF name = <<WordManageBurrows>> THEN Some("ManageBurrows")
    ELSE IF name = <<WordFederation>> THEN Some("Federation")
    ELSE IF name = <<WordUi>> THEN Some("UIControl")
    ELSE [some |-> FALSE, val |-> ""]

\* caps_str.split(',').filter_map(..).collect(): the capabilities named, in order
RECURSIVE CapsOfParts(_)
CapsOfParts(parts) ==
    IF parts = << >> THEN << >>
    ELSE LET c == CapabilityOfName(ToLowercase(Trim(Head(parts))))
         IN  (IF c.some THEN <<c.val>> ELSE << >>) \o CapsOfParts(Tail(parts))

ParseCaps(caps_str) == CapsOfParts(SplitOn(caps_str, Comma))

\* str::parse::<i64>(): an optional sign and at least one digit
ParseI64(s) ==
    LET digits == IF s # << >> /\ s[1] \in {Minus, Plus} THEN Tail(s) ELSE s
    IN  IF digits # << >> /\ \A i \in 1..Len(digits) : digits[i] \in Digits
        THEN [some |-> TRUE,
              val |-> IF s[1] = Minus THEN 0 - DecValue(digits) ELSE DecValue(digits)]
        ELSE [some |-> FALSE, val |-> 0]

\* header("TTL").and_then(|s| s.parse::<i64>().ok()).unwrap_or(600)
TtlOf(ttlHdr) ==
    IF ttlHdr.some /\ ParseI64(ttlHdr.val).some THEN ParseI64(ttlHdr.val).val ELSE DefaultTtl

\* caps.into_iter().collect::<HashSet<_>>()
ToSet(v) == {v[i] : i \in 1..Len(v)}

Grant(subject, caps, t, ttl_secs) ==
    [subject |-> subject, caps |-> ToSet(caps), issued_at |-> t, expires_at |-> t + ttl_secs]

\* (a grant that adds to the capabilities the subject already has)
GrantMerge(g, subject, caps, ttl_secs, t) ==
    (subject :> [Grant(subject, caps, t, ttl_secs) EXCEPT
                    !.caps = @ \cup (IF subject \in DOMAIN g THEN g[subject].caps ELSE {})])
    @@ [k \in DOMAIN g \ {subject} |-> g[k]]

\* grant: HashMap::insert under the subject
GrantMap(g, subject, caps, ttl_secs, t) ==
    (subject :> Grant(subject, caps, t, ttl_secs)) @@ [k \in DOMAIN g \ {subject} |-> g[k]]

\* (an allowed that does not look at expires_at)
AllowedIgnoresExpiry(g, subject, cap, t) == subject \in DOMAIN g /\ cap \in g[subject].caps

\* allowed: a grant exists, Utc::now().timestamp() < expires_at, caps.contains(cap)
Allowed(g, subject, cap, t) ==
    subject \in DOMAIN g /\ t < g[subject].expires_at /\ cap \in g[subject].caps

\* revoke: HashMap::remove
RevokeMap(g, subject) == [k \in DOMAIN g \ {subject} |-> g[k]]

\* DelegationManager::require: Err without a Burrow-ID header, else allowed
RequireOk(g, hdr, cap, t) == hdr.some /\ Allowed(g, hdr.val, cap, t)

\* (a handle_delegate that grants before it looks for the Caps header)
HandleDelegateGrantsFirst(g, bid, capsHdr, ttlHdr, t) ==
    IF ~bid.some THEN [res |-> "missing", grants |-> g]
    ELSE [res    |-> IF capsHdr.some THEN "ok" ELSE "missing",
          grants |-> GrantMap(g, bid.val, ParseCaps(capsHdr.val), TtlOf(ttlHdr), t)]

\* handle_delegate: the error for a missing Burrow-ID or Caps header, else
\* grant(subject, caps, ttl) and the reply 200 DELEGATED
HandleDelegateMap(g, bid, capsHdr, ttlHdr, t) ==
    IF ~bid.some \/ ~capsHdr.some THEN [res |-> "missing", grants |-> g]
    ELSE [res    |-> "ok",
          grants |-> GrantMap(g, bid.val, ParseCaps(capsHdr.val), TtlOf(ttlHdr), t)]

\* the subject that is granted capabilities; the Burrow-ID header of a
\* DELEGATE frame (absent or that subject) and of a frame require is called
\* for (absent, that subject, or one without a grant)
PermSubjects == {<<LetterA>>}
SubjectHdrs  == {None} \cup {Some(x) : x \in PermSubjects}
AskedHdrs    == SubjectHdrs \cup {Some(<<LetterB>>)}
CapLists     == {<<"Fetch">>, <<"List">>, <<"Fetch", "List">>}
AskedCaps    == {"Fetch", "List"}
Ttls         == {0, 1, 2}

\* dropped: the operation took a capability away that a grant for the
\* subject held before it
GrantOp(subject, kind, caps, t, ttl_secs) ==
    [kind |-> kind, caps |-> caps, at |-> t, ttl |-> ttl_secs,
     dropped |-> subject \in DOMAIN permGrants /\ permGrants[subject].caps \ caps # {}]

Noted(subject, op) ==
    (subject :> op) @@ [k \in DOMAIN lastGrantOp \ {subject} |-> lastGrantOp[k]]

\* grant(subject, caps, ttl_secs)
GrantCall(subject, caps, ttl_secs) ==
    /\ permGrants' = GrantMap(permGrants, subject, caps, ttl_secs, utc)
    /\ lastGrantOp' = Noted(subject, GrantOp(subject, "grant", ToSet(caps), utc, ttl_secs))
    /\ UNCHANGED <<nonPermVars, utc, reqRes, delRes, dframe>>

\* revoke(subject)
RevokeCall(subject) ==
    /\ permGrants' = RevokeMap(permGrants, subject)
    /\ lastGrantOp' = Noted(subject, GrantOp(subject, "revoke", {}, 0, 0))
    /\ UNCHANGED <<nonPermVars, utc, reqRes, delRes, dframe>>

\* require(frame, cap), hdr being frame.header("Burrow-ID")
RequireCall(hdr, cap) ==
    /\ reqRes' = [called |-> TRUE, ok |-> RequireOk(permGrants, hdr, cap, utc),
                  hdr |-> hdr, cap |-> cap]
    /\ UNCHANGED <<nonPermVars, utc, permGrants, lastGrantOp, delRes, dframe>>

\* handle_delegate(frame) for the Burrow-ID, Caps and TTL headers of the frame
HandleDelegate(bid, capsHdr, ttlHdr) ==
    LET r == HandleDelegateMap(permGrants, bid, capsHdr, ttlHdr, utc)
    IN  /\ permGrants' = r.grants
        /\ delRes' = r.res
        /\ lastGrantOp' = IF r.grants = permGrants /\ r.res # "ok"
                          THEN lastGrantOp
                          ELSE Noted(bid.val, GrantOp(bid.val, "grant", ToSet(ParseCaps(capsHdr.val)),
                                                      utc, TtlOf(ttlHdr)))
        /\ UNCHANGED <<nonPermVars, utc, reqRes, dframe>>

\* the clock of the capability checks
PermTick ==
    /\ utc < MaxPermUtc
    /\ utc' = utc + 1
    /\ UNCHANGED <<nonPermVars, permVars>>

\* DELEGATE frames next to direct grants
DelegateCapsHdrs == {None, Some(<<WordFetchUpper, Comma, LetterA>>)}
DelegateTtlHdrs  == {None, Some(<<Minus, 1>>)}

NextPerm ==
    \/ \E subject \in PermSubjects, caps \in CapLists, ttl_secs \in Ttls :
           GrantCall(subject, caps, ttl_secs)
    \/ \E subject \in PermSubjects : RevokeCall(subject)
    \/ \E hdr \in AskedHdrs, cap \in AskedCaps : RequireCall(hdr, cap)
    \/ \E bid \in SubjectHdrs, capsHdr \in DelegateCapsHdrs, ttlHdr \in DelegateTtlHdrs :
           HandleDelegate(bid, capsHdr, ttlHdr)
    \/ PermTick

SpecPerm == InitTrustSpec /\ [][NextPerm]_vars

\* handle_delegate on one DELEGATE frame with any short Caps text (names in
\* either case, an unknown name, commas and blanks) and any of the TTL texts
CapsChars     == {Comma, SP, WordFetchUpper, WordUi, LetterA}
CapsTextHdrs  == {None} \cup {Some(x) : x \in TextsUpTo(CapsChars, MaxCapsLen)}
TtlTextHdrs   == {None, Some(<< >>), Some(<<1>>), Some(<<1, 0>>), Some(<<Minus, 1>>),
                  Some(<<Plus, 2>>), Some(<<Minus>>), Some(<<LetterA>>)}
DelegateInputs == [bid : SubjectHdrs, caps : CapsTextHdrs, ttl : TtlTextHdrs]

NextDeleg ==
    \/ HandleDelegate(dframe.bid, dframe.caps, dframe.ttl)
    \/ PermTick

InitDeleg ==
    /\ InitLanes
    /\ InitSeqIdle
    /\ InitRel({MaxRetries})
    /\ InitTrust
    /\ InitCont
    /\ InitFrame
    /\ InitWire
    /\ InitAuth
    /\ InitPermWith(DelegateInputs)
    /\ InitAdd
    /\ InitMani
    /\ InitPrune
    /\ InitFull
    /\ InitClose
    /\ overflowChecks = TRUE

SpecDeleg == InitDeleg /\ [][NextDeleg]_vars

\* ------------------------------------------------------- credit arithmetic
\* LaneManager::add_credit applied to a lane map in the orders a then b,
\* b then a, and once with a + b.

\* one add_credit call as a build executes it: `self.credits += n` panics on
\* overflow when overflow checks are compiled in (the entry is already made,
\* the lane untouched), and wraps otherwise
AddCreditRun(m, id, n) ==
    LET e == Entry(m, id)
        r == MgrAddCredit(m, id, n)
    IN  IF overflowChecks /\ U32AddOverflows(e[id].credits, n)
        THEN [done |-> TRUE, lanes |-> e, released |-> << >>, panicked |-> TRUE]
        ELSE [done |-> TRUE, lanes |-> r[1], released |-> r[2], panicked |-> FALSE]

\* a further add_credit call after the run o; a caller that panicked makes none
AddCreditThen(o, id, n) ==
    LET r == AddCreditRun(o.lanes, id, n)
    IN  IF o.panicked
        THEN o
        ELSE [done |-> TRUE, lanes |-> r.lanes, released |-> o.released \o r.released,
              panicked |-> r.panicked]

\* add_credit(a) followed by add_credit(b)
AddAB ==
    /\ ~cout.ab.done
    /\ cout' = [cout EXCEPT !.ab = AddCreditThen(AddCreditRun(cin.lanes, DataLane, cin.a),
                                                 DataLane, cin.b)]
    /\ UNCHANGED <<nonAddVars, cin>>

\* add_credit(b) followed by add_credit(a)
AddBA ==
    /\ ~cout.ba.done
    /\ cout' = [cout EXCEPT !.ba = AddCreditThen(AddCreditRun(cin.lanes, DataLane, cin.b),
                                                 DataLane, cin.a)]
    /\ UNCHANGED <<nonAddVars, cin>>

\* a single add_credit(a + b)
AddSum ==
    /\ ~cout.sum.done
    /\ cout' = [cout EXCEPT !.sum = AddCreditRun(cin.lanes, DataLane,
                                                 U32WrappingAdd(cin.a, cin.b))]
    /\ UNCHANGED <<nonAddVars, cin>>

\* a lane with c credits and the frames 1..k queued
QueuedLane(c, k) ==
    [LaneNew(DataLane) EXCEPT !.credits = c,
                             !.pending_out = [i \in 1..k |-> Msg(DataLane, i)]]

\* lane maps the manager can hold: no lane yet, a lane out of credit with
\* frames queued, a lane with credit and nothing queued
AddLaneMaps ==
    {EmptyMap}
    \cup {(DataLane :> QueuedLane(U32(0), k)) : k \in 0..MaxQueuedIn}
    \cup {(DataLane :> QueuedLane(U32(1), 0))}

\* amounts of credit: small ones and the largest that fits next to the
\* initial credit
AddAmounts == {U32(n) : n \in 0..MaxQueuedIn} \cup {<<U32Base - 1, U32Base - 1 - InitialCredits>>}

\* a + b is an amount the caller can pass
AddInputs ==
    {i \in [lanes : AddLaneMaps, a : AddAmounts, b : AddAmounts] : ~U32AddOverflows(i.a, i.b)}

NextAdd == AddAB \/ AddBA \/ AddSum

InitAddSpec ==
    /\ InitLanes
    /\ InitSeqIdle
    /\ InitRel({MaxRetries})
    /\ InitTrust
    /\ InitCont
    /\ InitFrame
    /\ InitWire
    /\ InitAuth
    /\ InitPerm
    /\ InitMani
    /\ InitPrune
    /\ InitFull
    /\ InitClose
    /\ InitAddWith(AddInputs)

SpecAdd == InitAddSpec /\ [][NextAdd]_vars

\* ---------------------------------------------------------- trust manifest
\* security/manifest.rs.  Ed25519 is taken as an ideal signature scheme: a
\* signature is determined by the signing key and the message, and it
\* verifies under a public key and a message only when they are the signing
\* key's public key and the message signed.

Keypairs == {"k1", "k2"}

\* Keypair.public
PublicOf(keypair) == <<"public", keypair>>

PublicKeys == {PublicOf(k) : k \in Keypairs}

\* keypair.sign(&payload).to_bytes()
SignBytes(keypair, payload) == [signer |-> keypair, msg |-> payload]

\* pk.verify(&payload, &sig)
VerifySig(pk, payload, sig) == pk = PublicOf(sig.signer) /\ payload = sig.msg

\* String::new()
EmptyText == [alphabet |-> "none", bytes |-> << >>]

\* base64::encode
Base64Encode(bytes) == [alphabet |-> "base64", bytes |-> <<bytes>>]

\* base64::decode: the bytes of a base64 text; the empty text gives no bytes
Base64Decode(text) == text.bytes

\* Signature::from_bytes: Err unless the bytes are those of one signature
SignatureFromBytes(bytes) ==
    IF Len(bytes) = 1 THEN [ok |-> TRUE, sig |-> bytes[1]] ELSE [ok |-> FALSE]

MemberRecord(id, role, expires) == [id |-> id, role |-> role, expires |-> expires]

\* serde_json of a MemberRecord: the fields in declaration order
MemberJson(r) == <<"{", "id", <<"str", r.id>>, "role", <<"str", r.role>>,
                   "expires", <<"num", r.expires>>, "}">>

RECURSIVE MembersJson(_)
MembersJson(ms) ==
    IF ms = << >> THEN << >> ELSE MemberJson(Head(ms)) \o MembersJson(Tail(ms))

\* (a serialisation that leaves the issued field out)
ToVecWithoutIssued(m) ==
    <<"{", "anchor", <<"str", m.anchor>>, "members", "[">> \o MembersJson(m.members)
        \o <<"]", "signature", m.signature, "}">>

\* serde_json::to_vec(&manifest): the fields in declaration order
ToVec(m) ==
    <<"{", "anchor", <<"str", m.anchor>>, "members", "[">> \o MembersJson(m.members)
        \o <<"]", "issued", <<"num", m.issued>>, "signature", m.signature, "}">>

\* TrustManifest::sign at time t
Sign(anchor_id, members, keypair, t) ==
    LET unsigned == [anchor |-> anchor_id, members |-> members, issued |-> t,
                     signature |-> EmptyText]
        payload  == ToVec(unsigned)
    IN  [unsigned EXCEPT !.signature = Base64Encode(SignBytes(keypair, payload))]

\* TrustManifest::verify: TRUE for Ok(()), FALSE for Err
Verify(m, pk) ==
    LET payload == ToVec([m EXCEPT !.signature = EmptyText])
        sig     == SignatureFromBytes(Base64Decode(m.signature))
    IN  sig.ok /\ VerifySig(pk, payload, sig.sig)

ManiAnchors == {"anc", "anc2"}
MemberRecords == {MemberRecord("m1", "member", e) : e \in 0..1}

RECURSIVE SeqsUpTo(_, _)
SeqsUpTo(S, n) ==
    IF n = 0 THEN {<< >>}
    ELSE LET shorter == SeqsUpTo(S, n - 1)
         IN  shorter \cup {Append(q, x) : q \in shorter, x \in S}

MemberLists == SeqsUpTo(MemberRecords, MaxMembers)

\* let m = TrustManifest::sign(anchor_id, members, keypair)?
SignCall(anchor_id, members, keypair) ==
    /\ ~manifest.some
    /\ manifest' = [some |-> TRUE, m |-> Sign(anchor_id, members, keypair, utc)]
    /\ msigned' = [some |-> TRUE, m |-> manifest'.m, key |-> keypair]
    /\ UNCHANGED <<nonManiVars, utc, mres>>

\* the pub fields of the manifest are assigned after signing
Assigned(m) ==
    /\ manifest.some
    /\ manifest' = [manifest EXCEPT !.m = m]
    /\ mres' = [called |-> FALSE, ok |-> FALSE, pk |-> ""]
    /\ UNCHANGED <<nonManiVars, utc, msigned>>

SetAnchor(a) == Assigned([manifest.m EXCEPT !.anchor = a])

SetMembers(ms) == Assigned([manifest.m EXCEPT !.members = ms])

SetIssued(t) == Assigned([manifest.m EXCEPT !.issued = t])

\* m.verify(&pk)
VerifyCall(pk) ==
    /\ manifest.some
    /\ mres' = [called |-> TRUE, ok |-> Verify(manifest.m, pk), pk |-> pk]
    /\ UNCHANGED <<nonManiVars, utc, manifest, msigned>>

NextMani ==
    \/ \E a \in ManiAnchors, ms \in MemberLists, k \in Keypairs : SignCall(a, ms, k)
    \/ \E a \in ManiAnchors : SetAnchor(a)
    \/ \E ms \in MemberLists : SetMembers(ms)
    \/ \E t \in 0..MaxUtc : SetIssued(t)
    \/ \E pk \in PublicKeys : VerifyCall(pk)
    \/ UtcTick

SpecMani == InitTrustSpec /\ [][NextMani]_vars

\* ================================================================== claims

\* min(n, q) for a u32 n and a small natural q
U32MinNat(n, q) == IF n[1] > 0 \/ n[2] >= q THEN q ELSE n[2]

\* a - k for a u32 a >= k
RECURSIVE U32SubNat(_, _)
U32SubNat(a, k) == IF k = 0 THEN a ELSE U32SubNat(U32Dec(a), k - 1)

\* C1: lane sequencing.  The k completed next_seq calls on a lane returned
\* exactly 1..k, each once, in increasing order (the i-th call to return got
\* i), whatever the interleaving of the callers.
C1_SeqExactlyOnce ==
    /\ \A i \in 1..Len(returned) : returned[i][2] = i
    /\ (DataLane \in DOMAIN lanes /\ \A c \in Callers : cpc[c] \in {"idle", "locked"})
           => lanes[DataLane].next_seq_out = Len(returned) + 1

\* C1 witness: three calls by three different callers have returned.
C1_Witness ==
    /\ Len(returned) >= 3
    /\ {returned[i][1] : i \in 1..3} = Callers

\* C2: credit conservation.  On every lane, credits + frames released by
\* flush_pending + try_send calls that returned the frame
\* = 16 + the sum of the add_credit amounts.
C2_CreditConservation ==
    \A l \in DOMAIN lanes :
        BigAdd(BigAdd(lanes[l].credits, U32(flushedCnt[l])), U32(sentNow[l]))
            = BigAdd(U32(InitialCredits), granted[l])

\* C3: credit blocks then flushes.  On a lane with credits = 0, a
\* send_or_queue returns Queued and appends the frame at the tail of
\* pending_out; a CREDIT +n handled with q frames queued hands the reader
\* exactly the first min(n, q) queued frames in queue order, leaves
\* credits = n - min(n, q) and the other frames queued in their order; and
\* the reader pushes the frames it was handed head first.
C3_CreditBlocksThenFlushes ==
    [][ /\ (DataLane \in DOMAIN lanes /\ U32IsZero(lanes[DataLane].credits)) =>
            LET old == lanes[DataLane]
                new == lanes'[DataLane]
                q   == Len(old.pending_out)
                n   == lastCredit'.amount
                m   == U32MinNat(n, q)
            IN  /\ \A s \in Senders :
                       (spc[s] = "reserved" /\ spc'[s] # "reserved") =>
                           /\ spc'[s] = "idle"
                           /\ new.pending_out = Append(old.pending_out, Msg(DataLane, sseq[s]))
                           /\ U32IsZero(new.credits)
                /\ (grants' # grants /\ lastCredit'.present) =>
                       /\ ready' = SubSeq(old.pending_out, 1, m)
                       /\ new.credits = U32SubNat(n, m)
                       /\ new.pending_out = SubSeq(old.pending_out, m + 1, q)
                       /\ new.next_seq_out = old.next_seq_out
        /\ (rdpc = "flush" /\ pushed' # pushed /\ ready' # ready) =>
               /\ outLast' = Head(ready).seq
               /\ pushed' = pushed \cup {Head(ready).seq}
               /\ ready' = Tail(ready)
      ]_vars

\* C3 witness: a CREDIT +1 was handled with two frames queued and the one
\* released frame has been pushed: one frame is still queued, credits are 0.
C3_Witness ==
    /\ DataLane \in DOMAIN lanes
    /\ lastCredit.present /\ lastCredit.amount = U32(1)
    /\ flushedCnt[DataLane] = 1
    /\ rdpc = "idle"
    /\ Len(lanes[DataLane].pending_out) = 1
    /\ U32IsZero(lanes[DataLane].credits)
    /\ outLast = lanes[DataLane].pending_out[1].seq - 1

\* C4: per-lane send order equals sequence order.  Every frame pushed to the
\* outbound channel carries a larger sequence number than the frame pushed
\* before it.
C4_SendOrderIsSeqOrder == [][outLast' # outLast => outLast' > outLast]_vars

\* C5: retransmission count, for max_retries = 3.  A frame that was tracked,
\* is still pending and has used up its retries (no scan will resend it
\* again, none is waiting to be sent) was re-enqueued exactly max_retries
\* = 3 times.
C5_ResentMaxRetriesTimes ==
    max_retries = 3 =>
        \A k \in DOMAIN pending :
            ( /\ pending[k].attempts >= max_retries
              /\ \A i \in 1..Len(toResend) : toResend[i] # k )
                => resent[k] = max_retries

\* C6: a frame whose confirm_ack completed before the first scan that
\* followed its track_frame is never enqueued by the resend loop.
C6_EarlyAckSuppressesResend ==
    \A k \in early : resent[k] = 0 /\ \A i \in 1..Len(toResend) : toResend[i] # k

\* C6 witness: such a frame, with scans having run since (another frame
\* tracked beside it was resent).
C6_Witness ==
    \E k \in early, j \in RelKeys :
        /\ k \in scanned
        /\ j # k
        /\ resent[j] > 0
        /\ resent[k] = 0

\* C7: handling an ACK frame with valid Lane and ACK headers removes the
\* (lane, seq) entry from the reliability pending map: a step that raises a
\* lane's highest_ack to seq leaves no (lane, seq) entry in the pending map.
C7_AckRemovesPending ==
    [][\A l \in DOMAIN lanes :
           lanes'[l].acks # lanes[l].acks => <<l, lanes'[l].acks>> \notin DOMAIN pending']_vars

\* C8: every data frame placed on the outbound channel is registered in the
\* reliability pending map (or is being registered by the task that pushed
\* it) until its ACK is processed (no ACK is processed in a run of Spec).
C8_PushedIsTracked ==
    \A q \in pushed :
        \/ <<DataLane, q>> \in DOMAIN pending
        \/ \E s \in Senders : spc[s] = "track" /\ sseq[s] = q

C10_AckWithinAssigned ==
    \A l \in DOMAIN lanes : lanes[l].acks <= lanes[l].next_seq_out - 1

\* C11: every entry of the reliability pending map has attempts <=
\* max_retries, for every configured max_retries (0 and 1 included).
C11_AttemptsWithinMaxRetries ==
    \A k \in DOMAIN pending : pending[k].attempts <= max_retries

\* C12: a verify_or_remember call that found no entry, or an entry with the
\* same fingerprint, reports success: once it has stored the fingerprint or
\* last_seen the call comes to an end (it returns, unless its future is
\* dropped or the process stops first).
C12_TofuAcceptReturns ==
    \A t \in TrustTasks :
        (tpc[t] = "save_read" /\ rwWriter = t) ~> (tpc[t] = "idle")

\* C13: a verify_or_remember call for an id whose stored fingerprint differs
\* from the certificate's returns the mismatch error and leaves the in-memory
\* map and the file on disk as they were.
C13_MismatchLeavesEntry ==
    [][\A t \in TrustTasks, id \in TrustIds, c \in Certs, a \in Anchors :
          ( /\ VerifyOrRemember(t, id, c, a)
            /\ id \in DOMAIN peers
            /\ peers[id].fingerprint # Fingerprint(c) )
          => ( /\ tres'[t] = "mismatch"
               /\ tpc'[t] = "idle"
               /\ rwWriter' = "none"
               /\ peers' = peers
               /\ trustFile' = trustFile )]_vars

\* C13 witness: a call ended with the mismatch error while the cache held
\* entries that are also in a complete file on disk.
C13_Witness ==
    /\ \E t \in TrustTasks : tres[t] = "mismatch"
    /\ \A id \in TrustIds : IsTrusted(peers, id)
    /\ trustFile.exists
    /\ Parses(trustFile.bytes)
    /\ Deserialise(trustFile.bytes) = peers

\* C14: at every instant (so also after a stop of the process at that
\* instant) the trust file, when it exists, is a complete JSON document that
\* load can parse.
C14_TrustFileAlwaysParses ==
    trustFile.exists => Parses(trustFile.bytes)

\* C15: an operation whose write to disk fails returns the error and leaves
\* the in-memory state as it was before the call.  Checked for
\* ContinuityEngine::append: when the write of the log line fails, streams is
\* what it was when the call began.
C15_FailedAppendLeavesStreams ==
    [][(apc = "write" /\ apc' = "idle" /\ logFiles' = logFiles) => streams' = appBefore]_vars

\* C16: after any sequence of append calls that returned Ok, what load_topic
\* reads from the log of a topic is the in-memory event list of the topic
\* (same events, same order).
C16_LogRoundTrip ==
    (apc = "idle" /\ ~appFailed) =>
        \A topic \in DOMAIN streams :
            /\ LogPath(topic) \in DOMAIN logFiles
            /\ ParseLog(logFiles[LogPath(topic)], topic) = streams[topic]

\* the Seq header of a frame, as a number
SeqOfFrame(f) == ParseOr0(f.headers["Seq"])

\* C17: the frames replay(topic, Some(s)) returned have strictly increasing
\* Seq values, each greater than s; replay(topic, None) gives one frame per
\* stored event, with the event's lane, seq, topic and data.
C17_ReplayOrdered ==
    /\ replayArg.since.some =>
           /\ \A i \in 1..Len(replayed) : SeqOfFrame(replayed[i]) > replayArg.since.val
           /\ \A i, j \in 1..Len(replayed) :
                  i < j => SeqOfFrame(replayed[i]) < SeqOfFrame(replayed[j])
    /\ \A topic \in DOMAIN streams :
           LET fr == Replay(streams, topic, NoSince)
           IN  /\ Len(fr) = Len(streams[topic])
               /\ \A i \in 1..Len(fr) :
                      /\ fr[i].verb = "EVENT"
                      /\ fr[i].headers["Lane"] = Dec(streams[topic][i].lane)
                      /\ fr[i].headers["Seq"] = Dec(streams[topic][i].seq)
                      /\ fr[i].headers["Selector"] = topic
                      /\ fr[i].body = Some(streams[topic][i].data)

\* a missing body and an empty body are the same body
BodyText(b) == IF b.some THEN b.val ELSE << >>

\* C18: parsing the text to_string gave for a frame built with Frame::new,
\* set_header and assignments to args and body succeeds and yields the same
\* verb, args, headers and body (a missing body taken as an empty one).
C18_FrameRoundTrip ==
    fpc = "parsed" =>
        /\ fparsed.ok
        /\ fparsed.verb = built.verb
        /\ fparsed.args = built.args
        /\ fparsed.headers = built.headers
        /\ BodyText(fparsed.body) = BodyText(built.body)

\* C19: when read_frame meets bytes that do not parse as a frame the reader
\* task leaves its loop without counting a frame, and once it has left the
\* loop it takes nothing more from the stream.
C19_MalformedClosesTunnel ==
    [][/\ ( /\ tunpc = "reading"
            /\ wire # << >>
            /\ wire' = Tail(wire)
            /\ ~Head(wire).eof
            /\ ~FrameParse(Head(wire).text).ok )
          => (tunpc' = "closed" /\ nProcessed' = nProcessed)
       /\ tunpc = "closed"
          => (tunpc' = "closed" /\ nProcessed' = nProcessed /\ Len(wire') >= Len(wire))]_vars

\* C19 witness: the reader task met a malformed frame after a well-formed
\* one, it has left its loop and a later write is still on the stream.
C19_Witness ==
    /\ sawMalformed
    /\ tunpc = "closed"
    /\ nProcessed = 1
    /\ wire # << >>
    /\ FrameParse(wire[1].text).ok

\* C20: require_auth succeeds exactly when the frame carries a Session-Token
\* header whose value is a token create_session issued and the time of the
\* call is before that session's expires_at.
C20_RequireAuthIffValidSession ==
    [][\A hdr \in TokenHdrs :
          RequireAuth(hdr) =>
              ( authRes'.ok <=> ( /\ hdr.some
                                  /\ hdr.val \in issued
                                  /\ utc < sessions[hdr.val].expires_at ) )]_vars

\* C20 witness: require_auth refused an issued token whose session has expired.
C20_Witness ==
    /\ authRes.called
    /\ ~authRes.ok
    /\ authRes.hdr.some
    /\ authRes.hdr.val \in issued
    /\ utc >= sessions[authRes.hdr.val].expires_at

\* C21: process_hello on a HELLO frame without a Scheme header, or with a
\* scheme other than RABBIT-SECURE-1, returns an error, leaves the session
\* table as it was and issues no token.
C21_BadSchemeNoSession ==
    [][\A scheme \in SchemeHdrs, bid \in BurrowIdHdrs, token \in Tokens :
          (ProcessHello(scheme, bid, token)
             /\ (~scheme.some \/ scheme.val # "RABBIT-SECURE-1"))
          => ( /\ helloRes'.res \in {"missing", "unsupported"}
               /\ helloRes'.token = ""
               /\ sessions' = sessions
               /\ issued' = issued )]_vars

\* C21 witness: process_hello refused a HELLO with another scheme while a
\* session of an earlier handshake exists.
C21_Witness ==
    /\ helloRes.called
    /\ helloRes.res = "unsupported"
    /\ sessions # EmptyMap

\* the verbs dispatch handles before the authentication gate: HELLO,
\* 200 HELLO (read back by Frame::parse as verb 200 with the argument HELLO),
\* ACK and CREDIT
AuthExempt(f) ==
    \/ f.verb \in {<<WordHello>>, <<WordAck>>, <<WordCredit>>}
    \/ (f.verb = <<2, 0, 0>> /\ f.args = << <<WordHello>> >>)

\* frame.header("Session-Token")
SessionTokenOf(f) ==
    IF <<WordSessionToken>> \in DOMAIN f.headers
    THEN [some |-> TRUE, val |-> f.headers[<<WordSessionToken>>]]
    ELSE [some |-> FALSE, val |-> << >>]

\* C22: when the reader task receives a frame whose verb is not HELLO,
\* 200 HELLO, ACK or CREDIT and whose Session-Token is absent, unknown or
\* expired, it answers with a 401 response, and the frame has no effect on
\* the lanes or on the continuity log.
C22_UnauthAnswered401 ==
    [][( /\ ReadFrame
         /\ ReadFrameResult(Head(wire)) = "frame"
         /\ ~AuthExempt(FrameParse(Head(wire).text))
         /\ ~RequireAuthOk(sessions, SessionTokenOf(FrameParse(Head(wire).text)), utc) )
       => ( /\ Len(replies') = Len(replies) + 1
            /\ SubSeq(replies'[Len(replies')].verb, 1, 3) = <<4, 0, 1>>
            /\ lanes' = lanes
            /\ streams' = streams
            /\ logFiles' = logFiles )]_vars

\* C23: a capability is allowed right after it was granted, by grant or by a
\* DELEGATE frame, whatever the TTL, and is not allowed at any time later than
\* TTL seconds after the grant.
C23_GrantedThenExpires ==
    [][ /\ \A subject \in PermSubjects, caps \in CapLists, ttl_secs \in Ttls :
              GrantCall(subject, caps, ttl_secs)
              => \A c \in ToSet(caps) : Allowed(permGrants', subject, c, utc')
        /\ \A bid \in SubjectHdrs, capsHdr \in DelegateCapsHdrs, ttlHdr \in DelegateTtlHdrs :
              (HandleDelegate(bid, capsHdr, ttlHdr) /\ delRes' = "ok")
              => \A c \in ToSet(ParseCaps(capsHdr.val)) : Allowed(permGrants', bid.val, c, utc')
        /\ \A subject \in DOMAIN lastGrantOp', c \in Capabilities :
              ( /\ lastGrantOp'[subject].kind = "grant"
                /\ utc' > lastGrantOp'[subject].at + lastGrantOp'[subject].ttl )
              => ~Allowed(permGrants', subject, c, utc') ]_vars

\* C24: require(frame, cap) succeeds exactly when the frame has a Burrow-ID
\* header and the last operation for that subject was a grant (not a revoke)
\* that contains cap and has not expired; an earlier grant counts for nothing.
C24_RequireIffLiveGrant ==
    [][\A hdr \in AskedHdrs, cap \in AskedCaps :
          RequireCall(hdr, cap) =>
              ( reqRes'.ok <=> ( /\ hdr.some
                                 /\ hdr.val \in DOMAIN lastGrantOp
                                 /\ lastGrantOp[hdr.val].kind = "grant"
                                 /\ utc < lastGrantOp[hdr.val].at + lastGrantOp[hdr.val].ttl
                                 /\ cap \in lastGrantOp[hdr.val].caps ) )]_vars

\* C24 witness: require refused a capability that the subject's live grant
\* does not contain, that grant having replaced one with more capabilities.
C24_Witness ==
    /\ reqRes.called
    /\ ~reqRes.ok
    /\ reqRes.hdr.some
    /\ reqRes.hdr.val \in DOMAIN lastGrantOp
    /\ lastGrantOp[reqRes.hdr.val].kind = "grant"
    /\ lastGrantOp[reqRes.hdr.val].dropped
    /\ utc < lastGrantOp[reqRes.hdr.val].at + lastGrantOp[reqRes.hdr.val].ttl
    /\ reqRes.cap \notin lastGrantOp[reqRes.hdr.val].caps

\* the characters that spell the name of a capability, in small or capital letters
NameChars(c) ==
    IF c = "Fetch" THEN {WordFetch, WordFetchUpper}
    ELSE IF c = "List" THEN {WordList}
    ELSE IF c = "Publish" THEN {WordPublish}
    ELSE IF c = "Subscribe" THEN {WordSubscribe}
    ELSE IF c = "ManageWarren" THEN {WordManageWarren}
    ELSE IF c = "ManageBurrows" THEN {WordManageBurrows}
    ELSE IF c = "Federation" THEN {WordFederation}
    ELSE {WordUi}

\* c is listed in the Caps text: one of the comma-separated items is the name
\* of c with nothing but blanks around it
ListedIn(text, c) ==
    \E i \in 1..Len(text), j \in 1..Len(text) :
        /\ i <= j
        /\ (i = 1 \/ text[i - 1] = Comma)
        /\ (j = Len(text) \/ text[j + 1] = Comma)
        /\ \A k \in i..j : text[k] # Comma
        /\ \E k \in i..j : /\ text[k] \in NameChars(c)
                             /\ \A m \in (i..j) \ {k} : text[m] \in {SP, TAB, CR, LF}

\* the number of seconds each TTL header of the model stands for
TtlSeconds(ttlHdr) ==
    IF ttlHdr = Some(<<1>>) THEN 1
    ELSE IF ttlHdr = Some(<<1, 0>>) THEN 10
    ELSE IF ttlHdr = Some(<<Minus, 1>>) THEN 0 - 1
    ELSE IF ttlHdr = Some(<<Plus, 2>>) THEN 2
    ELSE 600

\* C25: handle_delegate on a DELEGATE frame without a Burrow-ID header or
\* without a Caps header returns the error and leaves the grants as they
\* were; with both headers it replaces the subject's grant by one holding
\* exactly the capabilities whose names are listed in Caps, expiring TTL
\* seconds after now, 600 seconds when TTL is absent or not an integer.
C25_DelegateGrantsListedCaps ==
    [][HandleDelegate(dframe.bid, dframe.caps, dframe.ttl) =>
          IF ~dframe.bid.some \/ ~dframe.caps.some
          THEN delRes' = "missing" /\ permGrants' = permGrants
          ELSE /\ delRes' = "ok"
               /\ DOMAIN permGrants' = DOMAIN permGrants \cup {dframe.bid.val}
               /\ \A k \in DOMAIN permGrants \ {dframe.bid.val} : permGrants'[k] = permGrants[k]
               /\ permGrants'[dframe.bid.val].caps =
                      {c \in Capabilities : ListedIn(dframe.caps.val, c)}
               /\ permGrants'[dframe.bid.val].issued_at = utc
               /\ permGrants'[dframe.bid.val].expires_at = utc + TtlSeconds(dframe.ttl)]_vars

\* C25 witness: a DELEGATE frame with Caps "FETCH,a" and TTL "a" gave its
\* subject Fetch alone, for 600 seconds.
C25_Witness ==
    /\ delRes = "ok"
    /\ dframe.bid.some
    /\ dframe.caps = Some(<<WordFetchUpper, Comma, LetterA>>)
    /\ dframe.ttl = Some(<<LetterA>>)
    /\ dframe.bid.val \in DOMAIN permGrants
    /\ permGrants[dframe.bid.val].caps = {"Fetch"}
    /\ permGrants[dframe.bid.val].expires_at = permGrants[dframe.bid.val].issued_at + 600

\* C26: handling a CREDIT frame whose Lane header or Credit header is missing
\* or is not a number changes the credits and the pending queue of no lane
\* (a lane that did not exist counts with the credits of a new lane) and
\* releases nothing to the outbound channel.
C26_BadCreditIsNoOp ==
    [][\A lh \in LaneHdrs, ch \in CreditHdrs :
          (HandleCredit(lh, ch) /\ (lh.kind # "num" \/ ch.kind # "num"))
          => ( /\ \A l \in DOMAIN lanes' :
                     /\ lanes'[l].credits = Entry(lanes, l)[l].credits
                     /\ lanes'[l].pending_out = Entry(lanes, l)[l].pending_out
               /\ ready' = ready
               /\ pushed' = pushed
               /\ outLast' = outLast )]_vars

\* a lane as the claim describes a new one
DefaultLane(id) ==
    [id |-> id, next_seq_out |-> 1, expected_seq_in |-> 1, credits |-> U32(16),
     pending_out |-> << >>, acks |-> 0]

\* lane(id, next_seq), add_credit and send_or_queue called for the lane id
\* not in the registry m leave the lane that the operation makes of a new one
CreatingOpsCreate(m, id) ==
    /\ DOMAIN MgrNextSeq(m, id)[1] = DOMAIN m \cup {id}
    /\ MgrNextSeq(m, id)[1][id] = LaneNextSeq(DefaultLane(id))[1]
    /\ \A n \in {U32(0), U32(1)} :
          /\ DOMAIN MgrAddCredit(m, id, n)[1] = DOMAIN m \cup {id}
          /\ MgrAddCredit(m, id, n)[1][id] = LaneFlushPending(LaneAddCredit(DefaultLane(id), n))[1]
    /\ DOMAIN MgrSendOrQueue(m, id, Msg(id, 1))[1] = DOMAIN m \cup {id}
    /\ MgrSendOrQueue(m, id, Msg(id, 1))[1][id] = LaneTrySend(DefaultLane(id), Msg(id, 1))[1]

\* C27 as claimed: every operation of the lane manager, ack included, called
\* for a lane id not in the registry creates the lane with credits 16,
\* next_seq_out 1, expected_seq_in 1, highest_ack 0 and no pending frame and
\* then applies itself to it.
C27_EveryOpCreatesLane ==
    \A id \in LaneIds \ DOMAIN lanes :
        /\ CreatingOpsCreate(lanes, id)
        /\ \A seq \in 0..MaxAckSeq :
              /\ id \in DOMAIN MgrAck(lanes, id, seq)
              /\ MgrAck(lanes, id, seq)[id] = LaneAck(DefaultLane(id), seq)

\* C27, amended: lane, add_credit and send_or_queue called for a lane id not
\* in the registry create the lane with credits 16, next_seq_out 1,
\* expected_seq_in 1, highest_ack 0 and no pending frame and then apply
\* themselves to it; ack for such a lane id changes nothing and creates no
\* lane; and no step removes a lane from the registry.
C27_OpsCreateLaneExceptAck ==
    /\ [](\A id \in LaneIds \ DOMAIN lanes :
             /\ CreatingOpsCreate(lanes, id)
             /\ \A seq \in 0..MaxAckSeq : MgrAck(lanes, id, seq) = lanes)
    /\ [][DOMAIN lanes \subseteq DOMAIN lanes']_vars

\* C27 witness: a CREDIT frame without a Lane header created lane 0 and
\* added its credit to the 16 of a new lane, and lane 1 does not exist yet.
C27_Witness ==
    /\ DOMAIN lanes = {0}
    /\ lastCredit.present
    /\ lanes[0] = [DefaultLane(0) EXCEPT !.credits = U32(17)]

\* C28: credit is additive and commutative: add_credit(a) followed by
\* add_credit(b), add_credit(b) followed by add_credit(a) and a single
\* add_credit(a + b) end in the same lane state (credits and pending queue)
\* and release the same frames in the same overall order.
SameLaneEnd(o1, o2) ==
    /\ o1.lanes[DataLane].credits = o2.lanes[DataLane].credits
    /\ o1.lanes[DataLane].pending_out = o2.lanes[DataLane].pending_out
    /\ o1.released = o2.released

C28_CreditAdditiveCommutative ==
    (cout.ab.done /\ cout.ba.done /\ cout.sum.done)
        => (SameLaneEnd(cout.ab, cout.ba) /\ SameLaneEnd(cout.ab, cout.sum))

\* C29: once the outbound channel of the reliability manager is closed (its
\* receiver dropped), the resend loop eventually terminates instead of
\* continuing to scan and attempt sends.
C29_ResendLoopExitsOnClose == outClosed ~> (rpc = "exited")

\* C30: manifest round-trip: sign followed by verify with the matching public
\* key succeeds; verify with any other public key fails, and verify of a
\* manifest whose anchor, members or issued field was changed after signing
\* fails.
AsSigned ==
    /\ manifest.m.anchor = msigned.m.anchor
    /\ manifest.m.members = msigned.m.members
    /\ manifest.m.issued = msigned.m.issued

C30_ManifestRoundTrip ==
    mres.called => (mres.ok <=> (mres.pk = PublicOf(msigned.key) /\ AsSigned))

C30_Witness ==
    /\ mres.called
    /\ mres.ok
    /\ manifest.m.members # << >>

\* C31: prune(topic, max_events) on a topic holding len events leaves exactly
\* min(len, max_events) events in memory, the most recently appended ones in
\* their original order, and does not change the on-disk log; a later
\* load_topic therefore restores all len events.
Newest(events, n) ==
    IF Len(events) <= n THEN events ELSE SubSeq(events, Len(events) - n + 1, Len(events))

PruneKeepsNewest ==
    (pruned.called /\ ~pruned.loaded)
        => /\ StreamOf(streams, pruned.topic) = Newest(pruned.before, pruned.max)
           /\ Len(StreamOf(streams, pruned.topic)) <= pruned.max

PruneLeavesLog == pruned.called => logFiles = pruned.logBefore

C31_PruneThenLoadRestores ==
    /\ PruneKeepsNewest
    /\ PruneLeavesLog
    /\ pruned.loaded => StreamOf(streams, pruned.topic) = pruned.before

\* C32: every verify_or_remember call eventually returns: the nested save()
\* call, made while the write guard on the peers lock is still held, obtains
\* its read access to the same lock and completes, so no call blocks forever.
C32_NestedSaveGetsReadGuard ==
    \A t \in TrustTasks :
        (tpc[t] = "save_read" /\ rwWriter = t) ~> (t \in rwReaders \/ tpc[t] = "idle")

\* C33: inbound sequencing: for a received data frame carrying Lane and Seq
\* headers, if Seq equals the lane's expected_seq_in then expected_seq_in
\* advances by one and an ACK for (lane, Seq) is emitted; if Seq is above
\* expected_seq_in, expected_seq_in is not advanced past the gap.
IsNumber(text) == text # << >> /\ \A i \in 1..Len(text) : text[i] \in Digits

\* the frame read carries a Lane and a Seq header holding numbers
CarriesLaneSeq(f) ==
    /\ <<WordLane>> \in DOMAIN f.headers
    /\ <<WordSeq>> \in DOMAIN f.headers
    /\ IsNumber(f.headers[<<WordLane>>])
    /\ IsNumber(f.headers[<<WordSeq>>])

\* the frame send_ack builds for (l, q)
AckFrame(l, q) ==
    SetHeader(SetHeader(FrameNew(<<WordAck>>), <<WordLane>>, Dec(l)), <<WordAck>>, Dec(q))

C33_InboundSeqAdvancesAndAcks ==
    [][( /\ ReadFrame
         /\ ReadFrameResult(Head(wire)) = "frame"
         /\ CarriesLaneSeq(FrameParse(Head(wire).text)) )
       => LET f        == FrameParse(Head(wire).text)
              l        == DecValue(f.headers[<<WordLane>>])
              q        == DecValue(f.headers[<<WordSeq>>])
              expected == Entry(lanes, l)[l].expected_seq_in
          IN  /\ q = expected
                    => /\ l \in DOMAIN lanes'
                       /\ lanes'[l].expected_seq_in = expected + 1
                       /\ Len(replies') = Len(replies) + 1
                       /\ replies'[Len(replies')] = AckFrame(l, q)
              /\ q > expected
                    => Entry(lanes', l)[l].expected_seq_in = expected ]_vars

\* C34: after confirm_ack(lane, seq) has returned, the resend loop never again
\* places that frame's data on the outbound channel, whatever the
\* interleaving: a frame the loop enqueues is still in the pending map (a
\* tracked frame is absent from the map only once confirm_ack removed it).
C34_NoResendAfterConfirm ==
    [][\A k \in RelKeys :
          resent'[k] > resent[k] => (k \in tracked /\ k \in DOMAIN pending)]_vars

\* C35: in every state reachable through send_or_queue, add_credit and ack,
\* a lane with credits > 0 has an empty pending_out queue, so send_or_queue
\* never returns a new frame for immediate sending while older frames of
\* the same lane are still queued.
CreditOrQueue ==
    \A l \in DOMAIN lanes : ~U32IsZero(lanes[l].credits) => lanes[l].pending_out = << >>

C35_CreditMeansEmptyQueue ==
    /\ [](CreditOrQueue)
    /\ [][\A s \in CtlSenders :
             (SenderSendOrQueue(s) /\ spc'[s] = "push")
                 => (DataLane \in DOMAIN lanes => lanes[DataLane].pending_out = << >>)]_vars

\* C35 witness: frames were queued on the data lane, a CREDIT released all of
\* them, and credit is left over with the queue empty.
C35_Witness ==
    /\ DataLane \in DOMAIN lanes
    /\ flushedCnt[DataLane] > 0
    /\ ~U32IsZero(lanes[DataLane].credits)
    /\ lanes[DataLane].pending_out = << >>
    /\ lanes[DataLane].acks > 0

\* C36: under any interleaving of append(topic, ...) and load_topic(topic),
\* once both have completed every event whose append returned Ok (its line
\* is in the log) is present in the in-memory stream of the topic.
C36_LoadKeepsAppended ==
    (apc = "idle" /\ lpc = "idle") =>
        \A topic \in ContTopics :
            LogPath(topic) \in DOMAIN logFiles =>
                LET logged == ParseLog(logFiles[LogPath(topic)], topic)
                    held   == StreamOf(streams, topic)
                IN  /\ Len(logged) <= Len(held)
                    /\ \A i \in 1..Len(logged) : \E j \in 1..Len(held) : held[j] = logged[i]

\* C37: logs of distinct topics are independent: for two different topics T
\* and T' (also a/b and a_b), appending to T never changes the events that
\* load_topic(T') followed by replay(T', None) returns.
LoadThenReplay(s, files, topic) == Replay(LoadTopicMap(s, files, topic), topic, NoSince)

\* the topic of the append call in progress: the one whose vector was pushed to
Appending(topic) == StreamOf(streams, topic) # StreamOf(appBefore, topic)

C37_TopicsIndependent ==
    [][\A T \in TwoTopics, T2 \in TwoTopics :
          (T # T2 /\ apc = "write" /\ apc' = "idle" /\ Appending(T))
              => LoadThenReplay(streams', logFiles', T2) = LoadThenReplay(streams, logFiles, T2)]_vars

\* C38: session expiry is final: once the time has reached a session's
\* expires_at, refresh_session on that token does not make validate_token or
\* require_auth accept the token again; refresh_session on a token that was
\* never issued creates no session.
C38_ExpiryIsFinal ==
    [][\A token \in TokenTexts :
          RefreshSession(token) =>
              /\ (token \in DOMAIN sessions /\ utc >= sessions[token].expires_at)
                    => /\ ~ValidateToken(sessions', token, utc')
                       /\ ~RequireAuthOk(sessions', SomeToken(token), utc')
              /\ token \notin issued => sessions' = sessions]_vars

\* a >= b for two u32 values
U32Geq(a, b) == a[1] > b[1] \/ (a[1] = b[1] /\ a[2] >= b[2])

\* C39: the credit counter never overflows.  Handling a CREDIT frame for the
\* data lane never aborts the reader task, and the lane's credits afterwards,
\* together with the credits spent on the frames the call released, are
\* never fewer than the credits before the call.
C39_CreditNeverOverflows ==
    [][grants' = grants + 1 =>
          /\ rdpc' # "panicked"
          /\ LET old == Entry(lanes, DataLane)[DataLane]
                 new == Entry(lanes', DataLane)[DataLane]
                 out == IF rdpc' = "flush" THEN Len(ready') ELSE 0
             IN  U32Geq(BigAdd(new.credits, U32(out)), old.credits)]_vars

\* C40: the resend loop never sends with the pending lock held.  Whenever
\* the loop is at a send (blocked on a full channel or not) it does not hold
\* the pending mutex, and every track_frame or confirm_ack call that waits
\* for the mutex completes, even if the channel is never drained.
C40_SendsWithoutPendingLock ==
    /\ [](rpc = "send" => plock # "loop")
    /\ \A t \in KeyTasks : (kpc[t] = "wait") ~> (kpc[t] = "idle")

\* (the loop is blocked in send on a full channel, and a track_frame and a
\* confirm_ack call both completed while it was)
C40_Witness == BlockedInSend /\ served = KeyTasks

====
